---- MODULE Spec2Model ----
(***************************************************************************)
(* Offer extraction engine of deals-4me: price_rules.py (the price/promo   *)
(* decision engine) and price_select.py (price pick, item name, scoring).  *)
(* Text is a sequence of one-character strings; the regular expressions of *)
(* the source are values of a small pattern language interpreted by Match, *)
(* a backtracking matcher with Python's priorities (greedy repetition,     *)
(* leftmost alternative first).                                            *)
(***************************************************************************)
EXTENDS Integers, Sequences, FiniteSets, TLC

\* Python's None: Null where a number is expected (no price, percentage or
\* quantity is negative), None where a string is, <<>> where a tuple or a text is
Null == -1
None == "None"

----------------------------------------------------------------------------
(* Characters *)

Digits == {"0","1","2","3","4","5","6","7","8","9"}
Lower == {"a","b","c","d","e","f","g","h","i","j","k","l","m",
          "n","o","p","q","r","s","t","u","v","w","x","y","z"}
Upper == {"A","B","C","D","E","F","G","H","I","J","K","L","M",
          "N","O","P","Q","R","S","T","U","V","W","X","Y","Z"}
\* characters outside ASCII are written by name
POUND   == "<pound>"
EURO    == "<euro>"
EMDASH  == "<em-dash>"
ENDASH  == "<en-dash>"
CENT    == "<cent>"
NBSP    == "<no-break-space>"
FULLPCT == "<fullwidth-percent>"
DEGREE  == "<degree>"
BULLET  == "<bullet>"
ACIRC   == "<A-circumflex>"
A_CIRC  == "<a-circumflex>"
TM      == "<trade-mark>"
TILDE   == "<small-tilde>"
LDQUO   == "<left-double-quote>"

\* [A-Za-z]
AsciiAlpha == Lower \cup Upper
\* str.isalpha()
Alpha == AsciiAlpha \cup {ACIRC, A_CIRC}
\* \w of the re module
WordChars == Alpha \cup Digits \cup {"_"}
\* \s of the re module
Space == {" ", "\t", "\n", "\r"}

\* str.lower(), one character
LowerOf(c) ==
  CASE c = "A" -> "a" [] c = "B" -> "b" [] c = "C" -> "c" [] c = "D" -> "d"
    [] c = "E" -> "e" [] c = "F" -> "f" [] c = "G" -> "g" [] c = "H" -> "h"
    [] c = "I" -> "i" [] c = "J" -> "j" [] c = "K" -> "k" [] c = "L" -> "l"
    [] c = "M" -> "m" [] c = "N" -> "n" [] c = "O" -> "o" [] c = "P" -> "p"
    [] c = "Q" -> "q" [] c = "R" -> "r" [] c = "S" -> "s" [] c = "T" -> "t"
    [] c = "U" -> "u" [] c = "V" -> "v" [] c = "W" -> "w" [] c = "X" -> "x"
    [] c = "Y" -> "y" [] c = "Z" -> "z" [] c = ACIRC -> A_CIRC [] OTHER -> c

UpperOf(c) ==
  CASE c = "a" -> "A" [] c = "b" -> "B" [] c = "c" -> "C" [] c = "d" -> "D"
    [] c = "e" -> "E" [] c = "f" -> "F" [] c = "g" -> "G" [] c = "h" -> "H"
    [] c = "i" -> "I" [] c = "j" -> "J" [] c = "k" -> "K" [] c = "l" -> "L"
    [] c = "m" -> "M" [] c = "n" -> "N" [] c = "o" -> "O" [] c = "p" -> "P"
    [] c = "q" -> "Q" [] c = "r" -> "R" [] c = "s" -> "S" [] c = "t" -> "T"
    [] c = "u" -> "U" [] c = "v" -> "V" [] c = "w" -> "W" [] c = "x" -> "X"
    [] c = "y" -> "Y" [] c = "z" -> "Z" [] c = A_CIRC -> ACIRC [] OTHER -> c

ToLower(s) == [k \in 1..Len(s) |-> LowerOf(s[k])]

DigitVal(c) ==
  CASE c = "0" -> 0 [] c = "1" -> 1 [] c = "2" -> 2 [] c = "3" -> 3
    [] c = "4" -> 4 [] c = "5" -> 5 [] c = "6" -> 6 [] c = "7" -> 7
    [] c = "8" -> 8 [] c = "9" -> 9

----------------------------------------------------------------------------
(* Pattern language: the constructs of the re module the source uses *)

Chr(cs)        == [t |-> "chr", cs |-> cs]                \* [...] , \d , \s , a literal
NotChr(cs)     == [t |-> "nchr", cs |-> cs]               \* [^...] ; . is NotChr({"\n"})
Cat(rs)        == [t |-> "cat", rs |-> rs]                \* r1 r2 ...
Alt(rs)        == [t |-> "alt", rs |-> rs]                \* r1 | r2 | ...
Rep(r, lo, hi) == [t |-> "rep", r |-> r, lo |-> lo, hi |-> hi]  \* r{lo,hi}, greedy
RepInf(r, lo)  == [t |-> "repinf", r |-> r, lo |-> lo]    \* r{lo,}, greedy
Grp(k, r)      == [t |-> "grp", k |-> k, r |-> r]         \* capturing group k
WB             == [t |-> "wb"]                            \* \b
NLB(cs)        == [t |-> "nlb", cs |-> cs]                \* (?<![cs])
NLA(cs)        == [t |-> "nla", cs |-> cs]                \* (?![cs])
PLB(cs)        == [t |-> "plb", cs |-> cs]                \* (?<=[cs])
LA(r)          == [t |-> "la", r |-> r]                   \* (?=r)
BOL            == [t |-> "bol"]                           \* ^
EOL            == [t |-> "eol"]                           \* $
Opt(r)         == Rep(r, 0, 1)
Star(r)        == RepInf(r, 0)
Plus(r)        == RepInf(r, 1)
D              == Chr(Digits)
S0             == Star(Chr(Space))                        \* \s*
S1             == Plus(Chr(Space))                        \* \s+
C(c)           == Chr({c})
\* a literal string, and a literal string under re.IGNORECASE, written in lower
\* case
Lit(w)         == [t |-> "lit", w |-> w, ic |-> FALSE]
LitI(w)        == [t |-> "lit", w |-> w, ic |-> TRUE]

\* capture groups: group k spans s[g[k][1] .. g[k][2]-1]; <<0,0>> is "did not take part"
NoGroups == [k \in 1..6 |-> <<0, 0>>]

Min(S) == CHOOSE x \in S : \A y \in S : x <= y
Max(S) == CHOOSE x \in S : \A y \in S : x >= y

IsWordAt(s, i) == i >= 1 /\ i <= Len(s) /\ s[i] \in WordChars

\* bookkeeping items of the matcher's continuation: the end of group k that began
\* at b, and the check that an unbounded repetition's body consumed something
EndGrp(k, b) == [t |-> "endgrp", k |-> k, b |-> b]
Moved(b)     == [t |-> "moved", b |-> b]

Fail == [ok |-> FALSE, e |-> 0, g |-> NoGroups]

\* does the one-character pattern c (Chr or NotChr) match s[k]
IsIn(c, s, k) == IF c.t = "chr" THEN s[k] \in c.cs ELSE s[k] \notin c.cs

\* the length of the longest run of characters matching c from position i of s
RunLen(c, s, i) ==
  IF i > Len(s) \/ ~IsIn(c, s, i) THEN 0
  ELSE Max({j \in 1..(Len(s) - i + 1) : \A k \in i..(i + j - 1) : IsIn(c, s, k)})

\* is the literal n at position i of s; under re.IGNORECASE the characters of s
\* are compared in lower case
IsLitAt(n, s, i) ==
  /\ i + Len(n.w) - 1 <= Len(s)
  /\ \A k \in 1..Len(n.w) :
        (IF n.ic THEN LowerOf(s[i + k - 1]) ELSE s[i + k - 1]) = n.w[k]

\* is r a pattern of one character
IsChar(r) == r.t \in {"chr", "nchr"}

\* how many characters a repetition n of a one-character pattern may take at
\* position i of s: from n.lo up to the run there is, and up to n.hi
RunRange(n, s, i) ==
  {j \in n.lo..RunLen(n.r, s, i) : j >= 0 /\ (n.t = "rep" => j <= n.hi)}

\* what is to match for one more repetition of n, and then the further ones
OnceMore(n, i) ==
  IF n.t = "rep" THEN <<n.r, Rep(n.r, n.lo - 1, n.hi - 1)>>
  ELSE <<n.r, Moved(i), RepInf(n.r, n.lo - 1)>>

\* of the attempts ps, pairs <<k, result>>, the successful one of least k and
\* the one of greatest k
Oks(ps)     == {p \in ps : p[2].ok}
FirstOk(ps) ==
  IF Oks(ps) = {} THEN <<0, Fail>> ELSE CHOOSE p \in Oks(ps) : \A q \in Oks(ps) : p[1] <= q[1]
LastOk(ps)  ==
  IF Oks(ps) = {} THEN <<0, Fail>> ELSE CHOOSE p \in Oks(ps) : \A q \in Oks(ps) : p[1] >= q[1]

RECURSIVE Match(_, _, _, _)
\* The backtracking matcher of the re module: the patterns of todo are to match
\* one after the other from position i of s, with the groups g set so far. The
\* result is the first success in the order the re module tries the
\* alternatives: [ok, e |-> the position after the match, g |-> the groups].
\* (The arms are tried in the order written.)
Match(todo, s, i, g) ==
  CASE todo = <<>> -> [ok |-> TRUE, e |-> i, g |-> g]
    [] Head(todo).t = "chr" ->
         IF i <= Len(s) /\ s[i] \in Head(todo).cs
         THEN Match(Tail(todo), s, i + 1, g) ELSE Fail
    [] Head(todo).t = "nchr" ->
         IF i <= Len(s) /\ s[i] \notin Head(todo).cs
         THEN Match(Tail(todo), s, i + 1, g) ELSE Fail
    [] Head(todo).t = "lit" ->
         IF IsLitAt(Head(todo), s, i)
         THEN Match(Tail(todo), s, i + Len(Head(todo).w), g) ELSE Fail
    [] Head(todo).t = "cat" -> Match(Head(todo).rs \o Tail(todo), s, i, g)
    [] Head(todo).t = "alt" ->
         \* the first alternative after which the rest matches
         FirstOk({<<k, Match(<<Head(todo).rs[k]>> \o Tail(todo), s, i, g)>> :
                    k \in 1..Len(Head(todo).rs)})[2]
    [] Head(todo).t \in {"rep", "repinf"} /\ IsChar(Head(todo).r) ->
         \* a run of one-character matches: the longest after which the rest
         \* matches, from all there are to take down to lo
         LastOk({<<j, Match(Tail(todo), s, i + j, g)>> :
                   j \in RunRange(Head(todo), s, i)})[2]
    [] Head(todo).t = "rep" /\ Head(todo).hi <= 0 -> Match(Tail(todo), s, i, g)
    [] Head(todo).t \in {"rep", "repinf"} ->
         \* once more, and if that fails and lo repetitions are done, no more
         LET more == Match(OnceMore(Head(todo), i) \o Tail(todo), s, i, g)
         IN IF more.ok THEN more
            ELSE IF Head(todo).lo <= 0 THEN Match(Tail(todo), s, i, g) ELSE Fail
    [] Head(todo).t = "grp" ->
         Match(<<Head(todo).r, EndGrp(Head(todo).k, i)>> \o Tail(todo), s, i, g)
    [] Head(todo).t = "endgrp" ->
         Match(Tail(todo), s, i, [g EXCEPT ![Head(todo).k] = <<Head(todo).b, i>>])
    [] Head(todo).t = "moved" ->
         IF i > Head(todo).b THEN Match(Tail(todo), s, i, g) ELSE Fail
    [] Head(todo).t = "wb" ->
         IF IsWordAt(s, i - 1) # IsWordAt(s, i) THEN Match(Tail(todo), s, i, g) ELSE Fail
    [] Head(todo).t = "nlb" ->
         IF i > 1 /\ s[i - 1] \in Head(todo).cs THEN Fail ELSE Match(Tail(todo), s, i, g)
    [] Head(todo).t = "nla" ->
         IF i <= Len(s) /\ s[i] \in Head(todo).cs THEN Fail
         ELSE Match(Tail(todo), s, i, g)
    [] Head(todo).t = "plb" ->
         IF i > 1 /\ s[i - 1] \in Head(todo).cs THEN Match(Tail(todo), s, i, g)
         ELSE Fail
    [] Head(todo).t = "la" ->
         IF Match(<<Head(todo).r>>, s, i, g).ok THEN Match(Tail(todo), s, i, g) ELSE Fail
    [] Head(todo).t = "bol" -> IF i = 1 THEN Match(Tail(todo), s, i, g) ELSE Fail
    [] Head(todo).t = "eol" ->
         IF i = Len(s) + 1 \/ (i = Len(s) /\ s[i] = "\n")
         THEN Match(Tail(todo), s, i, g) ELSE Fail

\* a match object: the attempt p = <<b, result>> that began at position b
AsMatch(p) == [ok |-> p[2].ok, b |-> p[1], e |-> p[2].e, g |-> p[2].g]

\* pattern.search(s, pos): the first match at the leftmost position >= i
SearchFrom(n, s, i) ==
  AsMatch(FirstOk({<<j, Match(<<n>>, s, j, NoGroups)>> : j \in i..(Len(s) + 1)}))

Search(n, s) == SearchFrom(n, s, 1)
Found(n, s) == Search(n, s).ok

RECURSIVE FindAllFrom(_, _, _)
\* pattern.finditer(s): the non-overlapping matches, left to right
FindAllFrom(n, s, i) ==
  LET m == SearchFrom(n, s, i)
  IN IF ~m.ok THEN <<>>
     ELSE <<m>> \o FindAllFrom(n, s, IF m.e = m.b THEN m.e + 1 ELSE m.e)

FindAll(n, s) == FindAllFrom(n, s, 1)

Slice(s, b, e) == IF e <= b THEN <<>> ELSE SubSeq(s, b, e - 1)
\* m.group(k); NoGroup when the group did not take part
NoGroup == <<"None">>
Group(s, m, k) == IF m.g[k] = <<0, 0>> THEN NoGroup ELSE Slice(s, m.g[k][1], m.g[k][2])

RECURSIVE SubFrom(_, _, _, _)
\* pattern.sub(repl, s) for a constant replacement
SubFrom(n, repl, s, i) ==
  LET m == SearchFrom(n, s, i)
  IN IF ~m.ok THEN Slice(s, i, Len(s) + 1)
     ELSE Slice(s, i, m.b) \o repl \o
          (IF m.e = m.b
           THEN (IF m.b <= Len(s) THEN <<s[m.b]>> \o SubFrom(n, repl, s, m.b + 1) ELSE <<>>)
           ELSE SubFrom(n, repl, s, m.e))

\* (no pattern of the source matches the empty text)
Sub(n, repl, s) == IF s = <<>> THEN <<>> ELSE SubFrom(n, repl, s, 1)

----------------------------------------------------------------------------
(* Strings and numbers *)

\* the positions of the characters of s that strip(cs) does not remove at an end
Kept(s, cs) == {k \in 1..Len(s) : s[k] \notin cs}
\* str.strip(chars); str.strip() is Strip(s, Space)
Strip(s, cs) ==
  IF Kept(s, cs) = {} THEN <<>> ELSE SubSeq(s, Min(Kept(s, cs)), Max(Kept(s, cs)))

\* w in s
Contains(s, w) ==
  \E i \in 1..(Len(s) - Len(w) + 1) : \A k \in 1..Len(w) : s[i + k - 1] = w[k]

\* len(s.split()): the maximal runs of non-whitespace characters
WordCount(s) ==
  Cardinality({k \in 1..Len(s) : s[k] \notin Space /\ (k = 1 \/ s[k - 1] \in Space)})

RECURSIVE ParseInt(_)
\* int(digits)
ParseInt(ds) ==
  IF ds = <<>> THEN 0
  ELSE 10 * ParseInt(SubSeq(ds, 1, Len(ds) - 1)) + DigitVal(ds[Len(ds)])

RECURSIVE Str(_)
\* str(n) for n >= 0
Str(n) ==
  IF n < 10 THEN <<CHOOSE c \in Digits : DigitVal(c) = n>>
  ELSE Str(n \div 10) \o Str(n % 10)

\* Money is an integer number of 1/10000 dollar, the finest grain the engine
\* produces (round(y / x, 4)); confidences of the decision engine are integer
\* hundredths.
E4 == 10000

\* float(raw) for raw = digits or digits "." two digits
DotAt(raw) == CHOOSE k \in 1..Len(raw) : raw[k] = "."
Float(raw) ==
  IF \A k \in 1..Len(raw) : raw[k] # "." THEN ParseInt(raw) * E4
  ELSE ParseInt(SubSeq(raw, 1, DotAt(raw) - 1)) * E4
       + ParseInt(SubSeq(raw, DotAt(raw) + 1, Len(raw))) * (E4 \div 100)

\* round(a / b) to the nearest integer. A tie is resolved to the even
\* neighbour; in the source a tie follows the binary expansion of the float
\* quotient.
RoundDiv(a, b) ==
  IF 2 * (a % b) < b THEN a \div b
  ELSE IF 2 * (a % b) > b THEN (a \div b) + 1
  ELSE IF (a \div b) % 2 = 0 THEN a \div b ELSE (a \div b) + 1

RECURSIVE Dedupe(_)
\* drop repeats, keeping the first occurrence of each value
Dedupe(xs) ==
  IF xs = <<>> THEN <<>>
  ELSE IF \E k \in 1..(Len(xs) - 1) : xs[k] = xs[Len(xs)]
       THEN Dedupe(SubSeq(xs, 1, Len(xs) - 1))
       ELSE Append(Dedupe(SubSeq(xs, 1, Len(xs) - 1)), xs[Len(xs)])

Range(f) == {f[k] : k \in DOMAIN f}

----------------------------------------------------------------------------
(* price_rules.py: normalization *)

NumPriceAhead == LA(Cat(<<Rep(D, 1, 3), Cat(<<C("."), Rep(D, 2, 2)>>), WB>>))
\* r"\bs\s+(?=\d{1,3}(?:\.\d{2})\b)"
S_ARTIFACT_RE == Cat(<<WB, C("s"), S1, NumPriceAhead>>)

\* a faulty variant: only the line break itself is replaced by a space, not the
\* white space around it
NormalizeRewrites_NewlineOnly ==
  << <<Lit(<<"u","s","d">>), <<"$">>>>,
     <<Chr({POUND, EURO}), <<"$">>>>,
     <<Chr({EMDASH, ENDASH}), <<"-">>>>,
     <<S_ARTIFACT_RE, <<"$">>>>,
     <<Plus(Chr({" ", "\t"})), <<" ">>>>,
     <<C("\n"), <<" ">>>> >>

\* the rewrites of normalize_ocr_text after lower(), in the order applied
NormalizeRewrites ==
  << <<Lit(<<"u","s","d">>), <<"$">>>>,               \* t.replace("usd", "$")
     <<Chr({POUND, EURO}), <<"$">>>>,                  \* .replace(pound, "$").replace(euro, "$")
     <<Chr({EMDASH, ENDASH}), <<"-">>>>,               \* .replace(em dash, "-").replace(en dash, "-")
     <<S_ARTIFACT_RE, <<"$">>>>,                       \* "s 1.99" meaning "$1.99"
     <<Plus(Chr({" ", "\t"})), <<" ">>>>,              \* re.sub(r"[ \t]+", " ", t)
     <<Cat(<<S0, C("\n"), S0>>), <<" ">>>> >>          \* re.sub(r"\s*\n\s*", " ", t)

RECURSIVE SubAll(_, _)
\* s after the rewrites rs, applied one after the other
SubAll(rs, s) ==
  IF rs = <<>> THEN s
  ELSE LET t == Sub(Head(rs)[1], Head(rs)[2], s)
       IN IF t = <<>> THEN <<>> ELSE SubAll(Tail(rs), t)

normalize_ocr_text(text) ==
  IF text = <<>> THEN <<>>
  ELSE Strip(SubAll(NormalizeRewrites, ToLower(text)), Space)

----------------------------------------------------------------------------
(* price_rules.py: extraction *)

Money2 == Cat(<<C("."), Rep(D, 2, 2)>>)                   \* \.\d{2}
Amount == Cat(<<Plus(D), Opt(Money2)>>)                   \* \d+(?:\.\d{2})?

_PRICE_RE ==
  Alt(<<Cat(<<C("$"), S0,
              Grp(1, Cat(<<Rep(D, 1, 3), Star(Cat(<<C(","), Rep(D, 3, 3)>>)), Opt(Money2)>>))>>),
        Cat(<<NLB(Digits), Grp(2, Cat(<<Rep(D, 1, 3), Money2>>))>>)>>)

_PERCENT_RE ==
  Cat(<<NLB(Digits), Grp(1, Rep(D, 1, 2)), S0, C("%"), S0, Lit(<<"o","f","f">>), WB>>)

\* groups: x = 1, y = 2, x2 = 3, y2 = 4
_X_FOR_Y_RE ==
  Alt(<<Cat(<<NLB(Digits), Grp(1, Plus(D)), S0, C("/"), S0, C("$"), S0, Grp(2, Amount)>>),
        Cat(<<NLB(Digits), Grp(3, Plus(D)), S0, Lit(<<"f","o","r">>), S0, C("$"), S0,
              Grp(4, Amount)>>)>>)

_RANGE_RE ==
  Cat(<<C("$"), S0, Grp(1, Amount), S0, C("-"), S0, C("$"), S0, Grp(2, Amount)>>)

_UNIT_RE ==
  Cat(<<C("$"), S0, Amount, S0, C("/"), S0,
        Grp(1, Alt(<<Lit(<<"l","b">>), Lit(<<"l","b","s">>), Lit(<<"o","z">>),
                     Lit(<<"c","t">>), Lit(<<"e","a">>), Lit(<<"e","a","c","h">>),
                     Lit(<<"g","a","l">>), Lit(<<"q","t">>), Lit(<<"p","t">>)>>)),
        WB>>)

_REG_PRICE_RE ==
  Cat(<<WB,
        Alt(<<Cat(<<Lit(<<"r","e","g">>), Opt(C("."))>>), Lit(<<"r","e","g","u","l","a","r">>),
              Lit(<<"w","a","s">>), Lit(<<"l","i","s","t">>)>>),
        S0, Opt(C("$")), S0, Grp(1, Cat(<<Rep(D, 1, 3), Opt(Money2)>>)), WB>>)

Remove(s, c) == SelectSeq(s, LAMBDA x : x # c)

\* m.group(j) or m.group(k)
GroupOr(s, m, j, k) == IF Group(s, m, j) # NoGroup THEN Group(s, m, j) ELSE Group(s, m, k)

PriceOf(s, m) == Float(Remove(GroupOr(s, m, 1, 2), ","))

PricesOf(s, ms) == [k \in 1..Len(ms) |-> PriceOf(s, ms[k])]

extract_prices(text_norm) ==
  Dedupe(SelectSeq(PricesOf(text_norm, FindAll(_PRICE_RE, text_norm)),
                   LAMBDA v : 0 <= v /\ v <= 10000 * E4))

PercentOf(pct) == IF 1 <= pct /\ pct <= 95 THEN pct ELSE Null

extract_percent_off(text_norm) ==
  IF ~Found(_PERCENT_RE, text_norm) THEN Null
  ELSE PercentOf(ParseInt(Group(text_norm, Search(_PERCENT_RE, text_norm), 1)))

XForYOf(xi, yf) == IF xi > 0 /\ yf > 0 THEN <<xi, yf>> ELSE <<>>

XForYAt(s, m) ==
  XForYOf(ParseInt(GroupOr(s, m, 1, 3)), Float(GroupOr(s, m, 2, 4)))

extract_x_for_y(text_norm) ==
  IF ~Found(_X_FOR_Y_RE, text_norm) THEN <<>>
  ELSE XForYAt(text_norm, Search(_X_FOR_Y_RE, text_norm))

RangeOf(lo, hi) == IF 0 < lo /\ lo <= hi THEN <<lo, hi>> ELSE <<>>

RangeAt(s, m) == RangeOf(Float(Group(s, m, 1)), Float(Group(s, m, 2)))

extract_range(text_norm) ==
  IF ~Found(_RANGE_RE, text_norm) THEN <<>>
  ELSE RangeAt(text_norm, Search(_RANGE_RE, text_norm))

UnitOf(u) ==
  IF u = <<"l","b","s">> THEN <<"l","b">>
  ELSE IF u = <<"e","a","c","h">> THEN <<"e","a">>
  ELSE u

extract_unit(text_norm) ==
  IF ~Found(_UNIT_RE, text_norm) THEN <<>>
  ELSE UnitOf(Group(text_norm, Search(_UNIT_RE, text_norm), 1))

extract_regular_price(text_norm) ==
  IF ~Found(_REG_PRICE_RE, text_norm) THEN Null
  ELSE Float(Group(text_norm, Search(_REG_PRICE_RE, text_norm), 1))

----------------------------------------------------------------------------
(* price_rules.py: decisioning *)

\* a faulty variant: every decision has the status ok
PriceDecision_AlwaysOk(sale, reg, ptype, ptext, eff, pct, conf, reason, status) ==
  [sale_price |-> sale, regular_price |-> reg, promo_type |-> ptype,
   promo_text |-> ptext, effective_unit_price |-> eff, promo_percent |-> pct,
   confidence |-> conf, confidence_reason |-> reason, cal |-> <<>>,
   parse_status |-> "ok"]

PriceDecision(sale, reg, ptype, ptext, eff, pct, conf, reason, status) ==
  [sale_price |-> sale, regular_price |-> reg, promo_type |-> ptype,
   promo_text |-> ptext, effective_unit_price |-> eff, promo_percent |-> pct,
   confidence |-> conf, confidence_reason |-> reason, cal |-> <<>>,
   parse_status |-> status]

Word(alts) == Cat(<<WB, Alt(alts), WB>>)
Buy1 == Lit(<<"b","u","y">>)
One  == Lit(<<"o","n","e">>)
Get1 == Lit(<<"g","e","t">>)
BOGO == Lit(<<"b","o","g","o">>)

\* a faulty variant: "now" left out
_EXPLICIT_PAY_WORDS_NoNow ==
  Word(<<Lit(<<"p","a","y">>),
         Lit(<<"y","o","u","r"," ","p","r","i","c","e">>), Lit(<<"o","n","l","y">>)>>)

_EXPLICIT_PAY_WORDS ==
  Word(<<Lit(<<"p","a","y">>), Lit(<<"n","o","w">>),
         Lit(<<"y","o","u","r"," ","p","r","i","c","e">>), Lit(<<"o","n","l","y">>)>>)
_REGULAR_WORDS ==
  Word(<<Lit(<<"r","e","g","u","l","a","r">>), Lit(<<"r","e","g",".">>),
         Lit(<<"w","a","s">>), Lit(<<"l","i","s","t">>)>>)
_SALE_WORDS ==
  Word(<<Lit(<<"s","a","l","e">>), Lit(<<"n","o","w">>), Lit(<<"o","n","l","y">>),
         Lit(<<"p","r","i","c","e">>)>>)
_BOGO_WORDS ==
  Word(<<BOGO, Cat(<<Buy1, S0, One, S0, Get1, S0, One>>),
         Cat(<<Buy1, S0, C("1"), S0, Get1, S0, C("1")>>)>>)
_BOGO_HALF_WORDS ==
  Word(<<Cat(<<Buy1, S0, One, S0, Get1, S0, One, S0, Lit(<<"5","0","%">>)>>),
         Cat(<<BOGO, S0, Lit(<<"5","0">>)>>)>>)

\* a faulty variant: no upper bound
_clamp01_NoUpper(x) == IF x < 0 THEN 0 ELSE x

_clamp01(x) == IF x < 0 THEN 0 ELSE IF x > 100 THEN 100 ELSE x

\* the conditions of the calibration steps
ShortText(t_norm)     == Len(t_norm) < 20 \/ WordCount(t_norm) < 4
\* a faulty variant: the bonus for a decision without a sale price
HasSalePrice_Inverted(d) == d.parse_status = "ok" /\ d.sale_price = Null
HasSalePrice(d)       == d.parse_status = "ok" /\ d.sale_price # Null
PctPlusPrice(d, pct)  == HasSalePrice(d) /\ pct # Null
\* a faulty variant: the unit bonus whatever the status
UnitPresent_AnyStatus(d, unit) == unit # <<>>
UnitPresent(d, unit)  == d.parse_status = "ok" /\ unit # <<>>
ManyPrices(d, prices) == Len(prices) >= 4 /\ d.confidence_reason # "labeled_sale_vs_regular"

\* conf after the five nudges, before the promo-only cap and the clamp
Nudged(d, t_norm, prices, pct, unit) ==
  d.confidence - (IF ShortText(t_norm) THEN 8 ELSE 0)
               + (IF HasSalePrice(d) THEN 3 ELSE 0)
               + (IF PctPlusPrice(d, pct) THEN 4 ELSE 0)
               + (IF UnitPresent(d, unit) THEN 2 ELSE 0)
               - (IF ManyPrices(d, prices) THEN 6 ELSE 0)

\* conf = min(conf, 0.85) for a promo-only decision
PromoCap(d, conf) == IF d.parse_status = "promo_only" /\ conf > 85 THEN 85 ELSE conf

CalReasons(d, t_norm, prices, pct, unit) ==
  (IF ShortText(t_norm) THEN <<"short_text">> ELSE <<>>)
  \o (IF HasSalePrice(d) THEN <<"has_sale_price">> ELSE <<>>)
  \o (IF PctPlusPrice(d, pct) THEN <<"pct_plus_price">> ELSE <<>>)
  \o (IF UnitPresent(d, unit) THEN <<"unit_present">> ELSE <<>>)
  \o (IF ManyPrices(d, prices) THEN <<"many_prices">> ELSE <<>>)

_finalize_decision(d, t_norm, prices, pct, unit) ==
  [d EXCEPT !.confidence = _clamp01(PromoCap(d, Nudged(d, t_norm, prices, pct, unit))),
            !.cal = CalReasons(d, t_norm, prices, pct, unit)]

PctType(pct) == IF pct # Null THEN "percent_off" ELSE None
PctText(pct) == IF pct # Null THEN <<pct, "% off">> ELSE <<>>

BogoText(t) ==
  IF Found(_BOGO_HALF_WORDS, t) THEN <<"BOGO 50%">>
  ELSE IF Found(BOGO, t) THEN <<"BOGO">> ELSE <<"Buy 1 Get 1">>

\* a faulty variant of rule 2: the total as the sale price
XForYDecision_Total(x, y, pct) ==
  PriceDecision(y, Null, "x_for_y", <<x, "/$", y>>, RoundDiv(y, x), pct, 82,
                "x_for_y_unit_price_as_sale", "ok")

\* rule 2: eff = round(y / x, 4)
XForYDecision(x, y, pct) ==
  PriceDecision(RoundDiv(y, x), Null, "x_for_y", <<x, "/$", y>>, RoundDiv(y, x), pct, 82,
                "x_for_y_unit_price_as_sale", "ok")

\* a faulty variant of rule 5: the first price also when a regular price is found
ExplicitPayDecision_First(prices, reg, pct) ==
  PriceDecision(prices[1], reg, PctType(pct), PctText(pct), Null, pct, 98,
                IF reg # Null THEN "explicit_pay_price_with_regular" ELSE "explicit_pay_price",
                "ok")

\* rule 5: sale = prices[0], or min([sale, reg] + prices) when a regular price is found
ExplicitPayDecision(prices, reg, pct) ==
  PriceDecision(IF reg # Null THEN Min({prices[1], reg} \cup Range(prices)) ELSE prices[1],
                reg, PctType(pct), PctText(pct), Null, pct, 98,
                IF reg # Null THEN "explicit_pay_price_with_regular" ELSE "explicit_pay_price",
                "ok")

\* a faulty variant: the two prices the other way round
TwoPriceDecision_Swapped(prices, pct, conf0, reason) ==
  PriceDecision(Max(Range(prices)), Min(Range(prices)), PctType(pct), PctText(pct),
                Null, pct, conf0, reason, "ok")

\* the decision of the two rules for two prices or more
TwoPriceDecision(prices, pct, conf0, reason) ==
  PriceDecision(Min(Range(prices)), Max(Range(prices)), PctType(pct), PctText(pct),
                Null, pct, conf0, reason, "ok")

\* a faulty variant: the explicit pay rule tried before the multi-buy rule
decide_rule_PayFirst(t, prices, pct, xfy, rng, unit) ==
  IF Found(_BOGO_WORDS, t) THEN
    IF prices # <<>> /\ Found(_EXPLICIT_PAY_WORDS, t)
    THEN PriceDecision(prices[1], Null, "bogo", BogoText(t), Null, pct, 98,
                       "explicit_pay_price_with_bogo", "ok")
    ELSE PriceDecision(Null, Null, "bogo", BogoText(t), Null, pct, 70,
                       "promo_only_bogo", "promo_only")
  ELSE IF prices # <<>> /\ Found(_EXPLICIT_PAY_WORDS, t) THEN
    ExplicitPayDecision(prices, extract_regular_price(t), pct)
  ELSE IF xfy # <<>> THEN
    XForYDecision(xfy[1], xfy[2], pct)
  ELSE IF rng # <<>> THEN
    PriceDecision(Null, Null, "range", <<"$", rng[1], "-$", rng[2]>>, Null, pct, 55,
                  "promo_only_range", "promo_only")
  ELSE IF pct # Null /\ prices = <<>> THEN
    PriceDecision(Null, Null, "percent_off", <<pct, "% off">>, Null, pct, 40,
                  "promo_only_percent", "promo_only")
  ELSE IF Len(prices) >= 2 THEN
    IF Found(_REGULAR_WORDS, t) /\ Found(_SALE_WORDS, t)
    THEN PriceDecision(Min(Range(prices)), Max(Range(prices)), PctType(pct), PctText(pct),
                       Null, pct, 92, "labeled_sale_vs_regular", "ok")
    ELSE PriceDecision(Min(Range(prices)), Max(Range(prices)), PctType(pct), PctText(pct),
                       Null, pct, 75, "two_prices_guess_low_is_sale", "ok")
  ELSE IF Len(prices) = 1 THEN
    PriceDecision(prices[1], Null, PctType(pct), PctText(pct), Null, pct, 84,
                  IF unit # <<>> THEN "single_price_with_unit" ELSE "single_price", "ok")
  ELSE
    PriceDecision(Null, Null, None, <<>>, Null, pct, 15, "no_price_no_promo", "failed")

\* the rule of the cascade that decides: the PriceDecision handed to
\* _finalize_decision
decide_rule(t, prices, pct, xfy, rng, unit) ==
  IF Found(_BOGO_WORDS, t) THEN
    IF prices # <<>> /\ Found(_EXPLICIT_PAY_WORDS, t)
    THEN PriceDecision(prices[1], Null, "bogo", BogoText(t), Null, pct, 98,
                       "explicit_pay_price_with_bogo", "ok")
    ELSE PriceDecision(Null, Null, "bogo", BogoText(t), Null, pct, 70,
                       "promo_only_bogo", "promo_only")
  ELSE IF xfy # <<>> THEN
    XForYDecision(xfy[1], xfy[2], pct)
  ELSE IF rng # <<>> THEN
    PriceDecision(Null, Null, "range", <<"$", rng[1], "-$", rng[2]>>, Null, pct, 55,
                  "promo_only_range", "promo_only")
  ELSE IF pct # Null /\ prices = <<>> THEN
    PriceDecision(Null, Null, "percent_off", <<pct, "% off">>, Null, pct, 40,
                  "promo_only_percent", "promo_only")
  ELSE IF prices # <<>> /\ Found(_EXPLICIT_PAY_WORDS, t) THEN
    ExplicitPayDecision(prices, extract_regular_price(t), pct)
  ELSE IF Len(prices) >= 2 THEN
    IF Found(_REGULAR_WORDS, t) /\ Found(_SALE_WORDS, t)
    THEN TwoPriceDecision(prices, pct, 92, "labeled_sale_vs_regular")
    ELSE TwoPriceDecision(prices, pct, 75, "two_prices_guess_low_is_sale")
  ELSE IF Len(prices) = 1 THEN
    PriceDecision(prices[1], Null, PctType(pct), PctText(pct), Null, pct, 84,
                  IF unit # <<>> THEN "single_price_with_unit" ELSE "single_price", "ok")
  ELSE
    PriceDecision(Null, Null, None, <<>>, Null, pct, 15, "no_price_no_promo", "failed")

\* a faulty variant: the empty text treated as a text without a price
EmptyDecision_NoPrice ==
  PriceDecision(Null, Null, None, <<>>, Null, Null, 15, "no_price_no_promo", "failed")

EmptyDecision ==
  PriceDecision(Null, Null, None, <<>>, Null, Null, 0, "empty_text", "failed")

\* decide_price_and_promo from the normalized text t on
DecideNorm(t, prices, pct, xfy, rng, unit) ==
  _finalize_decision(decide_rule(t, prices, pct, xfy, rng, unit), t, prices, pct, unit)

DecideText(t) ==
  IF t = <<>> THEN EmptyDecision
  ELSE DecideNorm(t, extract_prices(t), extract_percent_off(t), extract_x_for_y(t),
                  extract_range(t), extract_unit(t))

decide_price_and_promo(raw_text) == DecideText(normalize_ocr_text(raw_text))

----------------------------------------------------------------------------
(* price_select.py: patterns *)

DOLLAR_NO_DOT_RE == Cat(<<C("$"), Grp(1, Rep(D, 1, 2)), Grp(2, Rep(D, 2, 2)), WB>>)
DECIMAL_RE  == Cat(<<NLB(Digits), Grp(1, Cat(<<Rep(D, 1, 3), Money2>>)), NLA(Digits)>>)
CENTS_RE    == Cat(<<NLB(Digits), Grp(1, Rep(D, 1, 3)), S0, Chr({CENT, "c", "C"}), WB>>)
MULTIBUY_RE ==
  Cat(<<NLB(Digits), Grp(1, Rep(D, 1, 2)), S0, C("/"), S0, Opt(C("$")), S0,
        Grp(2, Cat(<<Rep(D, 1, 3), Opt(Money2)>>)), NLA(Digits)>>)
MONEY_RE    == Cat(<<C("$"), S0, Grp(1, Cat(<<Rep(D, 1, 3), Opt(Money2)>>))>>)
PCT_RE      ==
  Cat(<<NLB(Digits), Grp(1, Rep(D, 1, 2)), S0, Chr({"%", FULLPCT, DEGREE}), S0,
        Opt(LitI(<<"o","f","f">>)), WB>>)
PER_LB_RE   == Cat(<<WB, Alt(<<LitI(<<"/","l","b">>),
                               Cat(<<LitI(<<"p","e","r">>), S0, LitI(<<"l","b">>)>>)>>), WB>>)
EACH_RE     == Cat(<<WB, Alt(<<LitI(<<"e","a">>), LitI(<<"e","a","c","h">>)>>), WB>>)
JUNK_CUE_RE ==
  Cat(<<WB,
        Alt(<<LitI(<<"s","a","v","e">>),
              LitI(<<"s","a","v","i","n","g","s">>),
              Cat(<<LitI(<<"y","o","u">>), S0, LitI(<<"s","a","v","e">>)>>),
              LitI(<<"l","i","m","i","t">>),
              Cat(<<LitI(<<"m","u","s","t">>), S0, LitI(<<"b","u","y">>)>>),
              Cat(<<LitI(<<"w","h","e","n">>), S0, LitI(<<"y","o","u">>), S0, LitI(<<"b","u","y">>)>>),
              Cat(<<LitI(<<"m","i","x">>), S0, LitI(<<"&">>), S0, LitI(<<"m","a","t","c","h">>)>>),
              LitI(<<"p","o","i","n","t","s">>),
              LitI(<<"r","e","w","a","r","d">>),
              LitI(<<"d","e","p","o","s","i","t">>),
              LitI(<<"r","e","g">>),
              LitI(<<"r","e","g","u","l","a","r">>),
              LitI(<<"w","a","s">>),
              Cat(<<LitI(<<"c","o","m","p","a","r","e">>), S0, LitI(<<"a","t">>)>>),
              LitI(<<"v","a","l","i","d">>),
              Cat(<<LitI(<<"w","i","t","h">>), S0, LitI(<<"p","r","i","m","e">>)>>)>>),
        WB>>)
LIMIT_LINE_RE == Cat(<<WB, LitI(<<"l","i","m","i","t">>), WB>>)
NEG_NUM_RE  == Cat(<<NLB(Digits), C("-"), S0, Plus(D), Opt(Money2)>>)
BAD_NAME_CUE_RE ==
  Cat(<<WB,
        Alt(<<LitI(<<"d","i","g","i","t","a","l">>),
              LitI(<<"c","o","u","p","o","n">>),
              Cat(<<LitI(<<"f","o","r">>), S0, LitI(<<"u">>)>>),
              Cat(<<LitI(<<"s","a","l","e">>), S0, LitI(<<"p","r","i","c","e">>)>>),
              LitI(<<"p","r","i","c","e">>),
              LitI(<<"s","a","v","e">>),
              LitI(<<"s","a","v","i","n","g","s">>),
              LitI(<<"l","i","m","i","t">>),
              LitI(<<"l","b">>),
              LitI(<<"/","l","b">>),
              Cat(<<LitI(<<"p","e","r">>), S0, LitI(<<"l","b">>)>>),
              Cat(<<LitI(<<"m","u","s","t">>), S0, LitI(<<"b","u","y">>)>>),
              Cat(<<LitI(<<"m","i","x">>), S0, LitI(<<"&">>), S0, LitI(<<"m","a","t","c","h">>)>>),
              LitI(<<"r","e","g">>),
              LitI(<<"r","e","g","u","l","a","r">>),
              LitI(<<"w","a","s">>),
              LitI(<<"e","a","c","h">>),
              LitI(<<"e","a">>),
              LitI(<<"v","a","l","i","d">>),
              Cat(<<LitI(<<"w","i","t","h">>), S0, LitI(<<"p","r","i","m","e">>)>>),
              LitI(<<"o","f","f">>)>>),
        WB>>)
MOSTLY_NON_ALPHA_RE == Cat(<<BOL, Star(NotChr(AsciiAlpha)), EOL>>)
DayMonth == Cat(<<Rep(D, 1, 2), C("/"), Rep(D, 1, 2)>>)              \* \d{1,2}/\d{1,2}
VALID_LINE_RE ==
  Cat(<<BOL, S0, LitI(<<"v","a","l","i","d">>), S1, DayMonth, S0, C("-"), S0, DayMonth>>)

----------------------------------------------------------------------------
(* price_select.py: helpers *)

\* the characters _clean_name_line strips from both ends
NameEdge == {BULLET, "*", "-", ENDASH, EMDASH, "|", ":", ";", ".", ",",
             "(", ")", "[", "]", "{", "}"}

\* the last character of each line end of s: "\n", or a "\r" no "\n" follows
LineEnds(s) ==
  {k \in 1..Len(s) : s[k] = "\n" \/ (s[k] = "\r" /\ ~(k < Len(s) /\ s[k + 1] = "\n"))}
\* the j-th of them
NthEnd(s, j) ==
  CHOOSE k \in LineEnds(s) : Cardinality({e \in LineEnds(s) : e <= k}) = j
LineCount(s) ==
  Cardinality(LineEnds(s))
  + (IF s # <<>> /\ Len(s) \notin LineEnds(s) THEN 1 ELSE 0)
LineStart(s, j) == IF j = 1 THEN 1 ELSE NthEnd(s, j - 1) + 1
\* the position after the last character of line j
LineStop(s, j) ==
  IF j > Cardinality(LineEnds(s)) THEN Len(s) + 1
  ELSE IF s[NthEnd(s, j)] = "\n" /\ NthEnd(s, j) > 1 /\ s[NthEnd(s, j) - 1] = "\r"
       THEN NthEnd(s, j) - 1
  ELSE NthEnd(s, j)
\* str.splitlines(): the lines of s without their line ends
SplitLines(s) == [j \in 1..LineCount(s) |-> Slice(s, LineStart(s, j), LineStop(s, j))]

\* [ln.strip() for ln in blob_text.splitlines()]
StrippedLines(blob_text) ==
  [k \in 1..Len(SplitLines(blob_text)) |-> Strip(SplitLines(blob_text)[k], Space)]

\* " ".join(s.split())
JoinSplit(s) == Strip(Sub(S1, <<" ">>, s), Space)

\* the lines joined by "\n"
RECURSIVE JoinLines(_)
JoinLines(ls) ==
  IF ls = <<>> THEN <<>>
  ELSE IF Len(ls) = 1 THEN ls[1]
  ELSE ls[1] \o <<"\n">> \o JoinLines(Tail(ls))

NormalizeTextRewrites ==
  << <<Lit(<<"A","d","d"," ","t","o"," ","c","a","r","t">>), <<>>>>,
     <<Lit(<<"a","d","d"," ","t","o"," ","c","a","r","t">>), <<>>>>,
     <<C(ACIRC), <<>>>>,
     <<Lit(<<A_CIRC, EURO, TM>>), <<"'">>>>,
     <<Lit(<<A_CIRC, EURO, TILDE>>), <<"'">>>>,
     <<Lit(<<A_CIRC, EURO, LDQUO>>), <<"-">>>> >>

_normalize_text(text) == SubAll(NormalizeTextRewrites, text)

_clean_name_line(s) == Strip(Sub(S1, <<" ">>, Strip(s, Space)), NameEdge)

AnyToEnd == Cat(<<Star(NotChr({"\n"})), EOL>>)                        \* .*$
StripTrailingRewrites ==
  << <<Cat(<<WB, LitI(<<"i","t","e","m">>), WB, AnyToEnd>>), <<>>>>,
     <<Cat(<<WB, LitI(<<"s","i","n","g","l","e">>), S0, LitI(<<"p","r","i","c","e">>), WB,
             AnyToEnd>>), <<>>>>,
     <<Cat(<<WB, LitI(<<"v","a","r","i","e","t","i","e">>), Opt(Chr({"s", "S"})), WB,
             AnyToEnd>>), <<>>>> >>

_strip_trailing_junk(s) == Strip(SubAll(StripTrailingRewrites, s), Space)

----------------------------------------------------------------------------
(* price_select.py: candidate extraction *)

\* A Candidate. value is the float num / den, num in 1/10000 dollar (den is the
\* quantity of a multi-buy, 1 otherwise).
Candidate(kind, num, den, raw, li, ci, fl, qty, total) ==
  [kind |-> kind, num |-> num, den |-> den, raw |-> raw,
   line_index |-> li, char_index |-> ci,
   has_per_lb |-> fl.has_per_lb, has_each |-> fl.has_each,
   is_junk_context |-> fl.junk_line,
   qty |-> qty, total |-> total]

\* has_per_lb, has_each and junk_line of a line
LineFlags(line) ==
  [has_per_lb |-> Found(PER_LB_RE, line),
   has_each |-> Found(EACH_RE, line),
   junk_line |-> \/ Found(JUNK_CUE_RE, line)
                 \/ Found(LIMIT_LINE_RE, line)
                 \/ Found(PCT_RE, line)
                 \/ Found(NEG_NUM_RE, line)]

\* m.group(0)
Whole(s, m) == Slice(s, m.b, m.e)

MultibuyCand(line, li, fl, m) ==
  Candidate("multibuy", Float(Group(line, m, 2)), ParseInt(Group(line, m, 1)),
            Remove(Whole(line, m), " "), li, m.b - 1, fl,
            ParseInt(Group(line, m, 1)), Float(Group(line, m, 2)))

CentsCand(line, li, fl, m) ==
  Candidate("cents", ParseInt(Group(line, m, 1)) * (E4 \div 100), 1,
            Str(ParseInt(Group(line, m, 1))) \o <<CENT>>, li, m.b - 1, fl, Null, Null)

NoDotCand(line, li, fl, m) ==
  Candidate("dollar", Float(Group(line, m, 1) \o <<".">> \o Group(line, m, 2)), 1,
            <<"$">> \o Group(line, m, 1) \o <<".">> \o Group(line, m, 2),
            li, m.b - 1, fl, Null, Null)

DecimalCand(line, li, fl, m) ==
  Candidate("dollar", Float(Group(line, m, 1)), 1, Group(line, m, 1),
            li, m.b - 1, fl, Null, Null)

MoneyCand(line, li, fl, m) ==
  Candidate("dollar", Float(Group(line, m, 1)), 1, Remove(Whole(line, m), " "),
            li, m.b - 1, fl, Null, Null)

\* the candidates of one finditer loop, in match order, that pass its value test
Multibuys(line, li, fl, ms) ==
  SelectSeq([k \in 1..Len(ms) |-> MultibuyCand(line, li, fl, ms[k])],
            LAMBDA c : c.qty > 0 /\ c.total > 0)
CentsOf(line, li, fl, ms) ==
  SelectSeq([k \in 1..Len(ms) |-> CentsCand(line, li, fl, ms[k])],
            LAMBDA c : 0 < c.num /\ c.num <= 999 * (E4 \div 100))
NoDots(line, li, fl, ms) ==
  SelectSeq([k \in 1..Len(ms) |-> NoDotCand(line, li, fl, ms[k])],
            LAMBDA c : 0 < c.num /\ c.num <= 500 * E4)
Decimals(line, li, fl, ms) ==
  SelectSeq([k \in 1..Len(ms) |-> DecimalCand(line, li, fl, ms[k])],
            LAMBDA c : 0 < c.num /\ c.num <= 500 * E4)
Moneys(line, li, fl, ms) ==
  SelectSeq([k \in 1..Len(ms) |-> MoneyCand(line, li, fl, ms[k])],
            LAMBDA c : 0 < c.num /\ c.num <= 500 * E4)

\* the body of the loop over the lines, for the normalized line; li counts from 0,
\* fl are the flags of the line
FlaggedCandidates(line, li, fl) ==
  Multibuys(line, li, fl, FindAll(MULTIBUY_RE, line))
  \o CentsOf(line, li, fl, FindAll(CENTS_RE, line))
  \o NoDots(line, li, fl, FindAll(DOLLAR_NO_DOT_RE, line))
  \o Decimals(line, li, fl, FindAll(DECIMAL_RE, line))
  \o Moneys(line, li, fl, FindAll(MONEY_RE, line))

LineCandidates(line, li) ==
  IF Strip(line, Space) = <<>> THEN <<>> ELSE FlaggedCandidates(line, li, LineFlags(line))

RECURSIVE AllCandidates(_, _)
\* out after the lines from index li on
AllCandidates(lines, li) ==
  IF li >= Len(lines) THEN <<>>
  ELSE LineCandidates(_normalize_text(lines[li + 1]), li) \o AllCandidates(lines, li + 1)

\* round(c.value, 3), and round(c.value, 2) in 1/10000 dollar
Round3(c) == RoundDiv(c.num, c.den * 10)
Round2(c) == RoundDiv(c.num, c.den * 100) * 100

CandKey(c) == <<c.kind, Round3(c), c.line_index, c.raw>>

RECURSIVE DedupeCands(_)
DedupeCands(cs) ==
  IF cs = <<>> THEN <<>>
  ELSE IF \E k \in 1..(Len(cs) - 1) : CandKey(cs[k]) = CandKey(cs[Len(cs)])
       THEN DedupeCands(SubSeq(cs, 1, Len(cs) - 1))
       ELSE Append(DedupeCands(SubSeq(cs, 1, Len(cs) - 1)), cs[Len(cs)])

_extract_candidates(lines) == DedupeCands(AllCandidates(lines, 0))

----------------------------------------------------------------------------
(* price_select.py: percent and limit *)

\* OCR fixes: I9% -> 19%, l9% -> 19%, O -> 0 between digits
PercentFixes ==
  << <<Cat(<<WB, Chr({"I", "l"}), LA(D)>>), <<"1">>>>,
     <<Cat(<<PLB(Digits), C("O"), LA(D)>>), <<"0">>>> >>

\* the snippet around the match m in t2
PercentSnippet(t2, m) ==
  JoinSplit(Slice(t2, Max({0, m.b - 1 - 25}) + 1, Min({Len(t2), m.e - 1 + 35}) + 1))

PercentAt(t2, m) ==
  IF ~m.ok THEN <<Null, <<>>>>
  ELSE <<ParseInt(Group(t2, m, 1)), PercentSnippet(t2, m)>>

PercentIn(t2) == PercentAt(t2, Search(PCT_RE, t2))

\* price_select.extract_percent_off: <<percent, snippet>>
select_extract_percent_off(clean_text) ==
  IF clean_text = <<>> THEN <<Null, <<>>>>
  ELSE PercentIn(SubAll(PercentFixes, JoinSplit(clean_text)))

NumberWords ==
  <<Lit(<<"o","n","e">>), Lit(<<"t","w","o">>), Lit(<<"t","h","r","e","e">>),
    Lit(<<"f","o","u","r">>), Lit(<<"f","i","v","e">>), Lit(<<"s","i","x">>),
    Lit(<<"s","e","v","e","n">>), Lit(<<"e","i","g","h","t">>), Lit(<<"n","i","n","e">>),
    Lit(<<"t","e","n">>)>>

\* groups: num = 1, trailer = 2
LIMIT_RE ==
  Cat(<<WB, LitI(<<"l","i","m","i","t">>), WB, S0, Opt(Chr({":", "-"})), S0,
        Grp(1, Alt(<<Plus(D)>> \o NumberWords)), WB,
        Grp(2, Rep(NotChr({".", "\n", "\r"}), 0, 40))>>)

\* _WORD_NUMS.get(raw_num), or int(raw_num) for digits
LimitQty(raw_num) ==
  IF \A k \in 1..Len(raw_num) : raw_num[k] \in Digits THEN ParseInt(raw_num)
  ELSE CHOOSE q \in 1..10 : Match(<<NumberWords[q], EOL>>, raw_num, 1, NoGroups).ok

LimitScope(trailer) ==
  IF Contains(trailer, <<"p","e","r"," ","d","a","y">>)
     \/ Contains(trailer, <<"a"," ","d","a","y">>) THEN "per_day"
  ELSE IF Contains(trailer, <<"p","e","r"," ","t","r","i","p">>)
          \/ Contains(trailer, <<"p","e","r"," ","t","r","a","n","s","a","c","t","i","o","n">>)
          \/ Contains(trailer, <<"p","e","r"," ","v","i","s","i","t">>) THEN "per_trip"
  ELSE IF Contains(trailer, <<"p","e","r"," ","c","u","s","t","o","m","e","r">>)
          \/ Contains(trailer, <<"p","e","r"," ","h","o","u","s","e","h","o","l","d">>)
       THEN "per_customer"
  ELSE "unknown"

NoLimit == <<Null, None, <<>>>>

LimitAt(t, m) ==
  IF ~m.ok THEN NoLimit
  ELSE <<LimitQty(Group(t, m, 1)),
         LimitScope(Group(t, m, 2)),
         Strip(<<"l","i","m","i","t"," ">> \o Group(t, m, 1) \o Group(t, m, 2), Space)>>

LimitIn(t) == LimitAt(t, Search(LIMIT_RE, t))

\* <<limit_qty, limit_scope, limit_text>>
extract_limit(clean_text) ==
  IF clean_text = <<>> THEN NoLimit
  ELSE LimitIn(JoinSplit(ToLower(clean_text)))

----------------------------------------------------------------------------
(* price_select.py: price pick *)

PricePick(sale, unit, multi, qty, total, raw) ==
  [sale_price |-> sale, unit |-> unit, is_multibuy |-> multi, multibuy_qty |-> qty,
   multibuy_total |-> total, raw_token |-> raw, reason |-> "top_score"]

\* pick_best_sale_price returning None
NoPick ==
  [sale_price |-> Null, unit |-> None, is_multibuy |-> FALSE, multibuy_qty |-> Null,
   multibuy_total |-> Null, raw_token |-> <<>>, reason |-> None]

\* a faulty variant: 50 for 5
TooShort_Fifty(blob_text) == blob_text = <<>> \/ Len(Strip(blob_text, Space)) < 50

\* not blob_text or len(blob_text.strip()) < 5
TooShort(blob_text) == blob_text = <<>> \/ Len(Strip(blob_text, Space)) < 5

BlobHasPerLb(lines) == \E k \in 1..Len(lines) : Found(PER_LB_RE, lines[k])

\* a faulty variant: 30 off for a junk context
Score_LightJunk(c, blob_has_per_lb) ==
  (CASE c.kind = "dollar" -> 400 [] c.kind = "multibuy" -> 350 [] c.kind = "cents" -> 200
     [] OTHER -> 0)
  + (IF blob_has_per_lb THEN (IF c.has_per_lb THEN 150 ELSE -60)
     ELSE IF c.kind = "cents" THEN -60 ELSE 0)
  + (IF c.has_each THEN 20 ELSE 0)
  - (IF c.is_junk_context THEN 300 ELSE 0)
  - (IF 10 * c.num < E4 * c.den THEN 250 ELSE 0)
  - (IF c.num > 100 * E4 * c.den THEN 100 ELSE 0)
  + Min({60, c.line_index * 3})

\* score(c), in tenths
Score(c, blob_has_per_lb) ==
  (CASE c.kind = "dollar" -> 400 [] c.kind = "multibuy" -> 350 [] c.kind = "cents" -> 200
     [] OTHER -> 0)
  + (IF blob_has_per_lb THEN (IF c.has_per_lb THEN 150 ELSE -60)
     ELSE IF c.kind = "cents" THEN -60 ELSE 0)
  + (IF c.has_each THEN 20 ELSE 0)
  - (IF c.is_junk_context THEN 350 ELSE 0)
  - (IF 10 * c.num < E4 * c.den THEN 250 ELSE 0)
  - (IF c.num > 100 * E4 * c.den THEN 100 ELSE 0)
  + Min({60, c.line_index * 3})

\* sorted(cands, key=score, reverse=True)[0]: the first candidate of the highest
\* score (the sort is stable)
BestIndex(cands, perlb) ==
  CHOOSE k \in 1..Len(cands) :
    /\ \A j \in 1..Len(cands) : Score(cands[j], perlb) <= Score(cands[k], perlb)
    /\ \A j \in 1..(k - 1) : Score(cands[j], perlb) < Score(cands[k], perlb)

PickOf(best, blob_has_per_lb) ==
  PricePick(Round2(best),
            IF best.has_per_lb \/ blob_has_per_lb THEN "lb" ELSE "ea",
            best.kind = "multibuy",
            IF best.kind = "multibuy" THEN best.qty ELSE Null,
            IF best.kind = "multibuy" THEN best.total ELSE Null,
            best.raw)

PickFrom(lines, cands) ==
  IF cands = <<>> THEN NoPick
  ELSE PickOf(cands[BestIndex(cands, BlobHasPerLb(lines))], BlobHasPerLb(lines))

PickLines(lines) == PickFrom(lines, _extract_candidates(lines))

pick_best_sale_price(blob_text) ==
  IF TooShort(blob_text) THEN NoPick ELSE PickLines(StrippedLines(blob_text))

----------------------------------------------------------------------------
(* price_select.py: item name *)

\* the token removals of normalize_candidate_line before the Valid-line test
NameTokenRewrites ==
  << <<DECIMAL_RE, <<>>>>, <<CENTS_RE, <<>>>>, <<MULTIBUY_RE, <<>>>>, <<MONEY_RE, <<>>>>,
     <<PCT_RE, <<>>>>, <<BAD_NAME_CUE_RE, <<>>>> >>

\* and after it: "12 - 15", bare numbers, runs of whitespace
NameNumberRewrites ==
  << <<Cat(<<WB, Rep(D, 1, 3), S0, C("-"), S0, Rep(D, 1, 3), WB>>), <<>>>>,
     <<Cat(<<WB, Plus(D), WB>>), <<>>>>,
     <<S1, <<" ">>>> >>

NameTail(s) ==
  IF Found(VALID_LINE_RE, s) THEN <<>>
  ELSE Strip(Strip(SubAll(NameNumberRewrites, s), NameEdge \cup {" "}), Space)

normalize_candidate_line(s) ==
  NameTail(SubAll(NameTokenRewrites,
                  _strip_trailing_junk(_clean_name_line(_normalize_text(s)))))

AlphaCount(s) == Cardinality({k \in 1..Len(s) : s[k] \in Alpha})

score_cleaned(cleaned) ==
  IF cleaned = <<>> THEN -999
  ELSE IF AlphaCount(cleaned) < 6 THEN -999
  ELSE IF Found(MOSTLY_NON_ALPHA_RE, cleaned) THEN -999
  ELSE IF WordCount(cleaned) < 2 THEN -50
  ELSE Min({24, WordCount(cleaned) * 5})
       + (IF 10 <= Len(cleaned) /\ Len(cleaned) <= 70 THEN 10 ELSE 0)
       - (IF Len(cleaned) > 110 THEN 10 ELSE 0)

Abs(x) == IF x < 0 THEN -x ELSE x

\* a faulty variant: one line more on either side
NameWindow_Wide(n, center) ==
  IF center # Null
  THEN {i \in 0..(n - 1) : Max({0, center - 5}) <= i /\ i <= Min({n - 1, center + 5})}
  ELSE 0..(n - 1)

\* the line indexes (from 0) the loop visits; center is best.line_index or Null
NameWindow(n, center) ==
  IF center # Null
  THEN {i \in 0..(n - 1) : Max({0, center - 4}) <= i /\ i <= Min({n - 1, center + 4})}
  ELSE 0..(n - 1)

\* the single-line candidate of line i, as <<score, text>>, if any
SingleName(a, i, center) ==
  IF a = <<>> THEN <<>>
  ELSE << <<score_cleaned(a)
            + (IF center # Null THEN Max({0, 14 - Abs(i - center) * 4}) ELSE 0), a>> >>

\* the candidate of lines i and i + 1 together, if any
PairName(a, b, i, center) ==
  IF a = <<>> \/ b = <<>> THEN <<>>
  ELSE << <<score_cleaned(_clean_name_line(a \o <<" ">> \o b))
            + (IF center # Null THEN Max({0, 16 - Abs(i - center) * 3}) ELSE 0) + 6,
            _clean_name_line(a \o <<" ">> \o b)>> >>

\* the candidates one iteration of the loop appends
NamesAt(cleaned, i, center) ==
  SingleName(cleaned[i + 1], i, center)
  \o (IF i + 1 < Len(cleaned) THEN PairName(cleaned[i + 1], cleaned[i + 2], i, center)
      ELSE <<>>)

RECURSIVE NameCandidates(_, _, _)
NameCandidates(cleaned, i, center) ==
  IF i >= Len(cleaned) THEN <<>>
  ELSE (IF i \in NameWindow(Len(cleaned), center) THEN NamesAt(cleaned, i, center)
        ELSE <<>>)
       \o NameCandidates(cleaned, i + 1, center)

\* candidates.sort(reverse=True, key=score)[0]
TopName(cs) ==
  cs[CHOOSE k \in 1..Len(cs) :
       /\ \A j \in 1..Len(cs) : cs[j][1] <= cs[k][1]
       /\ \A j \in 1..(k - 1) : cs[j][1] < cs[k][1]]

Prefix(s, n) == IF Len(s) <= n THEN s ELSE SubSeq(s, 1, n)

MAX_NAME_LEN == 90

NameFrom(cs) ==
  IF cs = <<>> THEN <<>>
  ELSE IF TopName(cs)[1] < 0 THEN <<>>
  ELSE Prefix(_clean_name_line(TopName(cs)[2]), MAX_NAME_LEN)

CleanedLines(raw_lines) ==
  [k \in 1..Len(raw_lines) |-> normalize_candidate_line(raw_lines[k])]

NameOfLines(raw_lines, center) ==
  IF \A k \in 1..Len(raw_lines) : raw_lines[k] = <<>> THEN <<>>
  ELSE NameFrom(NameCandidates(CleanedLines(raw_lines), 0, center))

\* extract_item_name(blob_text, best) with center = best.line_index, Null for no
\* best; <<>> is None
extract_item_name(blob_text, center) ==
  IF TooShort(blob_text) THEN <<>>
  ELSE NameOfLines(StrippedLines(blob_text), center)

----------------------------------------------------------------------------
(* price_select.py: main parse *)

MIN_CONFIDENCE == 60

ParsedDeal(name, pick, pct, limit, conf, reasons) ==
  [item_name |-> name,
   sale_price |-> pick.sale_price,
   unit |-> pick.unit,
   is_multibuy |-> pick.is_multibuy,
   multibuy_qty |-> pick.multibuy_qty,
   multibuy_total |-> pick.multibuy_total,
   percent_off |-> pct[1], percent_text |-> pct[2],
   confidence |-> conf, reject_reason |-> reasons,
   limit_qty |-> limit[1], limit_scope |-> limit[2], limit_text |-> limit[3]]

\* parse_offer_blob returning None
NoDeal == ParsedDeal(<<>>, NoPick, <<Null, <<>>>>, NoLimit, Null, <<>>)

\* "\n".join([ln for ln in lines if ln])
CleanText(lines) == JoinLines(SelectSeq(lines, LAMBDA ln : ln # <<>>))

PRIME_RE == Cat(<<WB, LitI(<<"p","r","i","m","e">>), WB>>)

\* the line of the first candidate whose value rounds to the picked price
BestLine(cands, pick) ==
  IF pick = NoPick \/ \A k \in 1..Len(cands) : Round2(cands[k]) # pick.sale_price
  THEN Null
  ELSE cands[CHOOSE k \in 1..Len(cands) :
               /\ Round2(cands[k]) = pick.sale_price
               /\ \A j \in 1..(k - 1) : Round2(cands[j]) # pick.sale_price].line_index

\* a faulty variant: nothing for a well-formed multi-buy
DealScore_NoMultibuy(name, pick, pct) ==
  (IF pick # NoPick /\ pick.sale_price # Null THEN 35
   ELSE IF pct[1] # Null THEN 35 ELSE 0)
  + (IF WordCount(name) >= 2 THEN 35 ELSE 20)
  + (IF pick # NoPick /\ pick.unit # None THEN 10 ELSE 0)

\* the confidence before the clamp
DealScore(name, pick, pct) ==
  (IF pick # NoPick /\ pick.sale_price # Null THEN 35
   ELSE IF pct[1] # Null THEN 35 ELSE 0)
  + (IF WordCount(name) >= 2 THEN 35 ELSE 20)
  + (IF pick # NoPick /\ pick.unit # None THEN 10 ELSE 0)
  + (IF pick # NoPick /\ pick.is_multibuy
        /\ pick.multibuy_qty # Null /\ pick.multibuy_qty # 0
        /\ pick.multibuy_total # Null /\ pick.multibuy_total # 0 THEN 10 ELSE 0)

DealReasons(name, pick, pct) ==
  (IF (pick = NoPick \/ pick.sale_price = Null) /\ pct[1] = Null
   THEN <<"no_price_or_percent">> ELSE <<>>)
  \o (IF WordCount(name) >= 2 THEN <<>> ELSE <<"short_name">>)
  \o (IF pick # NoPick /\ pick.is_multibuy
         /\ (pick.multibuy_qty \in {Null, 0} \/ pick.multibuy_total \in {Null, 0})
      THEN <<"weak_multibuy">> ELSE <<>>)

Clamp100(c) == Max({0, Min({100, c})})

\* a faulty variant: the deal is returned whatever its confidence
ScoredDeal_NoThreshold(name, pick, pct, limit) ==
  ParsedDeal(name, pick, pct, limit, Clamp100(DealScore(name, pick, pct)),
             DealReasons(name, pick, pct))

ScoredDeal(name, pick, pct, limit) ==
  IF Clamp100(DealScore(name, pick, pct)) < MIN_CONFIDENCE THEN NoDeal
  ELSE ParsedDeal(name, pick, pct, limit, Clamp100(DealScore(name, pick, pct)),
                  DealReasons(name, pick, pct))

NamedDeal(name, clean_text, pick, pct) ==
  IF name = <<>> THEN NoDeal
  ELSE ScoredDeal(name, pick, pct, extract_limit(clean_text))

ParseWith(blob_text, lines, clean_text, pick, pct) ==
  IF pick = NoPick /\ pct[1] = Null /\ ~Found(PRIME_RE, clean_text) THEN NoDeal
  ELSE NamedDeal(extract_item_name(blob_text, BestLine(_extract_candidates(lines), pick)),
                 clean_text, pick, pct)

ParseLines(blob_text, lines) ==
  ParseWith(blob_text, lines, CleanText(lines),
            pick_best_sale_price(blob_text),
            select_extract_percent_off(CleanText(lines)))

parse_offer_blob(blob_text) == ParseLines(blob_text, StrippedLines(blob_text))

\* the reason reported for a blob parse_offer_blob returned None for
ExplainWhy(blob_text, pick) ==
  IF extract_item_name(blob_text,
                       BestLine(_extract_candidates(StrippedLines(blob_text)), pick)) = <<>>
  THEN <<NoDeal, "no_item_name">>
  ELSE <<NoDeal, "low_confidence">>

\* a faulty variant: "ok" without looking at the deal
ReasonFor_Unchecked(blob_text, pick, deal) == <<deal, "ok">>

ReasonFor(blob_text, pick, deal) ==
  IF deal # NoDeal THEN <<deal, "ok">> ELSE ExplainWhy(blob_text, pick)

ReasonWith(blob_text, pick, pct) ==
  IF pick = NoPick /\ pct[1] = Null THEN <<NoDeal, "no_price_or_percent">>
  ELSE ReasonFor(blob_text, pick, parse_offer_blob(blob_text))

\* <<deal, status>>
parse_offer_blob_with_reason(blob_text) ==
  IF TooShort(blob_text) THEN <<NoDeal, "empty_blob">>
  ELSE ReasonWith(blob_text, pick_best_sale_price(blob_text),
                  select_extract_percent_off(JoinSplit(blob_text)))

----------------------------------------------------------------------------
(* ocr_guardrails.py: the csv module as mark_manual_needed uses it (the excel    *)
(* dialect: "," between fields, a field quoted only where needed, a quote inside *)
(* a quoted field doubled, "\r\n" after a row; files opened with newline="")     *)

QUOTE == "\""
CsvBreaks == {"\r", "\n"}
\* what makes csv.writer quote a field
CsvSpecial == {",", QUOTE} \cup CsvBreaks

RECURSIVE DoubleQuotes(_)
DoubleQuotes(f) ==
  IF f = <<>> THEN <<>>
  ELSE (IF Head(f) = QUOTE THEN <<QUOTE, QUOTE>> ELSE <<Head(f)>>) \o DoubleQuotes(Tail(f))

\* a faulty variant: no field is quoted
CsvField_Bare(f) == f

\* one field as csv.writer writes it
CsvField(f) ==
  IF \E k \in 1..Len(f) : f[k] \in CsvSpecial
  THEN <<QUOTE>> \o DoubleQuotes(f) \o <<QUOTE>>
  ELSE f

RECURSIVE CsvJoin(_)
CsvJoin(fields) ==
  IF Len(fields) = 1 THEN CsvField(fields[1])
  ELSE CsvField(Head(fields)) \o <<",">> \o CsvJoin(Tail(fields))

\* writer.writerow(fields)
writerow(fields) == CsvJoin(fields) \o <<"\r", "\n">>

\* csv.reader, field by field. The number of quotes in s[a..b]
QuotesIn(s, a, b) == Cardinality({k \in a..b : s[k] = QUOTE})

\* the quote that closes the quoted field opened at s[i]: the first one that is
\* not half of a doubled quote; Len(s) + 1 if the text ends inside the field
ClosingQuote(s, i) ==
  Min({j \in (i + 1)..Len(s) : /\ s[j] = QUOTE
                               /\ QuotesIn(s, i + 1, j) % 2 = 1
                               /\ (j = Len(s) \/ s[j + 1] # QUOTE)}
      \cup {Len(s) + 1})

\* the positions of s[a..b] but for the second quote of each doubled quote
UndoubledAt(s, a, b) == {k \in a..b : s[k] = QUOTE => QuotesIn(s, a, k) % 2 = 1}
\* the k-th position of the set P
NthOf(P, k) == CHOOSE p \in P : Cardinality({q \in P : q < p}) = k - 1
\* the characters of s at the positions P, in order
CharsAt(s, P) == [k \in 1..Cardinality(P) |-> s[NthOf(P, k)]]
\* s[a..b] with each doubled quote read as one
Undoubled(s, a, b) == CharsAt(s, UndoubledAt(s, a, b))

\* where the unquoted part of a field stops that starts at s[i]: at the next
\* delimiter or line break, or at the end of the text
FieldStop(s, i) == Min({j \in i..Len(s) : s[j] \in {","} \cup CsvBreaks} \cup {Len(s) + 1})

\* where the next record starts after the line break at s[i]
AfterBreak(s, i) == Min({j \in i..Len(s) : s[j] \notin CsvBreaks} \cup {Len(s) + 1})

\* a field read: its text, where it stopped, and whether there was no field to
\* read because the text had ended
FieldRead(f, stop, eof) == [f |-> f, stop |-> stop, eof |-> eof]

\* what follows the closing quote at s[c] is read as unquoted text of the field
QuotedTail(s, body, c, stop) == FieldRead(body \o SubSeq(s, c + 1, stop - 1), stop, FALSE)

QuotedField(s, i, c) ==
  IF c > Len(s) THEN FieldRead(Undoubled(s, i + 1, Len(s)), Len(s) + 1, FALSE)
  ELSE QuotedTail(s, Undoubled(s, i + 1, c - 1), c, FieldStop(s, c + 1))

PlainField(s, i, stop) == FieldRead(SubSeq(s, i, stop - 1), stop, FALSE)

\* the field that starts at s[i]
ReadField(s, i) ==
  IF i > Len(s) THEN FieldRead(<<>>, Len(s) + 1, TRUE)
  ELSE IF s[i] = QUOTE THEN QuotedField(s, i, ClosingQuote(s, i))
  ELSE PlainField(s, i, FieldStop(s, i))

RECURSIVE ReadFrom(_, _, _, _)
\* the rows of s, fld being the field just read, row the fields before it in its
\* record and rows the records before that
ReadFrom(s, fld, row, rows) ==
  IF fld.eof THEN (IF row = <<>> THEN rows ELSE Append(rows, Append(row, <<>>)))
  ELSE IF fld.stop > Len(s) THEN Append(rows, Append(row, fld.f))
  ELSE IF s[fld.stop] = ","
       THEN ReadFrom(s, ReadField(s, fld.stop + 1), Append(row, fld.f), rows)
       ELSE ReadFrom(s, ReadField(s, AfterBreak(s, fld.stop)), <<>>,
                     Append(rows, Append(row, fld.f)))

\* list(csv.reader(f)) without the empty rows
reader(s) == ReadFrom(s, ReadField(s, AfterBreak(s, 1)), <<>>, <<>>)

\* row.get(key) of a row of csv.DictReader under the given fieldnames; a field
\* that is missing is None
NoField == <<None>>
RowGet(fieldnames, row, key) ==
  IF \E k \in 1..Len(fieldnames) : fieldnames[k] = key /\ k <= Len(row)
  THEN row[Max({k \in 1..Len(fieldnames) : fieldnames[k] = key /\ k <= Len(row)})]
  ELSE NoField

----------------------------------------------------------------------------
(* ocr_guardrails.py: mark_manual_needed *)

F_TIMESTAMP   == <<"t","i","m","e","s","t","a","m","p","_","u","t","c">>
F_STORE_ID    == <<"s","t","o","r","e","_","i","d">>
F_WEEK_CODE   == <<"w","e","e","k","_","c","o","d","e">>
F_SOURCE_FILE == <<"s","o","u","r","c","e","_","f","i","l","e">>
F_REASON      == <<"r","e","a","s","o","n">>
\* list(row.keys())
ManualFields == <<F_TIMESTAMP, F_STORE_ID, F_WEEK_CODE, F_SOURCE_FILE, F_REASON>>

\* the content of a path that does not exist
NoFile == <<"<no file>">>

\* the key of a row of the file under the header it was read with
KeyOf(fieldnames, row) ==
  <<RowGet(fieldnames, row, F_STORE_ID), RowGet(fieldnames, row, F_WEEK_CODE),
    RowGet(fieldnames, row, F_SOURCE_FILE)>>

\* lines 90-99: some row of the file has the key
HasRow(rows, key) == \E k \in 2..Len(rows) : KeyOf(rows[1], rows[k]) = key

\* lines 101-116: the row appended, after the header if the file is new
Appended(file, row) ==
  (IF file = NoFile THEN writerow(ManualFields) ELSE file) \o writerow(row)

\* lines 90-92: the rows csv.DictReader is given, none without the file
ManualRead(file) == IF file = NoFile THEN <<>> ELSE reader(file)

\* the file after the call, rows being the rows read from it
MarkWith(file, rows, store_id, week_code, source_file, reason, ts) ==
  IF HasRow(rows, <<store_id, week_code, source_file>>)
  THEN file
  ELSE Appended(file, <<ts, store_id, week_code, source_file, reason>>)

\* the file after mark_manual_needed(store_id, week_code, source_file, reason) at
\* the time ts
mark_manual_needed(file, store_id, week_code, source_file, reason, ts) ==
  MarkWith(file, ManualRead(file), store_id, week_code, source_file, reason, ts)

----------------------------------------------------------------------------
(* ocr_guardrails.py: the log of the OCR attempts *)

F_ATTEMPT == <<"a","t","t","e","m","p","t">>
F_STATUS  == <<"s","t","a","t","u","s">>
F_DETAILS == <<"d","e","t","a","i","l","s">>
\* lines 42-51
AttemptFields ==
  <<F_TIMESTAMP, F_STORE_ID, F_WEEK_CODE, F_SOURCE_FILE, F_ATTEMPT, F_STATUS, F_REASON,
    F_DETAILS>>
S_OK   == <<"O","K">>
S_FAIL == <<"F","A","I","L">>

\* lines 14-55: ocr_attempts.csv after log_ocr_attempt(store_id, week_code,
\* source_file, attempt, status, reason) at the time ts
log_ocr_attempt(file, store_id, week_code, source_file, attempt, status, reason, ts) ==
  (IF file = NoFile THEN writerow(AttemptFields) ELSE file)
  \o writerow(<<ts, store_id, week_code, source_file, Str(attempt), status, reason, <<>>>>)

\* lines 63-68: the rows csv.DictReader is given, none without the file
AttemptsRead(file) == IF file = NoFile THEN <<>> ELSE reader(file)

\* lines 69-76: the rows counted
FailRows(rows, key) ==
  {k \in 2..Len(rows) :
     KeyOf(rows[1], rows[k]) = key /\ RowGet(rows[1], rows[k], F_STATUS) = S_FAIL}

\* lines 57-77
get_fail_count(file, store_id, week_code, source_file) ==
  Cardinality(FailRows(AttemptsRead(file), <<store_id, week_code, source_file>>))

----------------------------------------------------------------------------
(* date_ocr_utils.py: extract_date_range, as far as whether it finds a range *)

ORDINAL_SUFFIX_RE == Alt(<<LitI(<<"s","t">>), LitI(<<"n","d">>), LitI(<<"r","d">>), LitI(<<"t","h">>)>>)
\* jan(?:uary)?|feb(?:ruary)?|...|dec(?:ember)?
MonthName ==
  Alt(<<Cat(<<LitI(<<"j","a","n">>), Opt(LitI(<<"u","a","r","y">>))>>),
        Cat(<<LitI(<<"f","e","b">>), Opt(LitI(<<"r","u","a","r","y">>))>>),
        Cat(<<LitI(<<"m","a","r">>), Opt(LitI(<<"c","h">>))>>),
        Cat(<<LitI(<<"a","p","r">>), Opt(LitI(<<"i","l">>))>>),
        LitI(<<"m","a","y">>),
        Cat(<<LitI(<<"j","u","n">>), Opt(LitI(<<"e">>))>>),
        Cat(<<LitI(<<"j","u","l">>), Opt(LitI(<<"y">>))>>),
        Cat(<<LitI(<<"a","u","g">>), Opt(LitI(<<"u","s","t">>))>>),
        Cat(<<LitI(<<"s","e","p">>), Opt(Cat(<<LitI(<<"t">>), Opt(LitI(<<"e","m","b","e","r">>))>>))>>),
        Cat(<<LitI(<<"o","c","t">>), Opt(LitI(<<"o","b","e","r">>))>>),
        Cat(<<LitI(<<"n","o","v">>), Opt(LitI(<<"e","m","b","e","r">>))>>),
        Cat(<<LitI(<<"d","e","c">>), Opt(LitI(<<"e","m","b","e","r">>))>>)>>)
\* \d{1,2}(?:st|nd|rd|th)?
DayToken == Cat(<<Rep(D, 1, 2), Opt(ORDINAL_SUFFIX_RE)>>)
\* lines 80-88
month_range_pattern ==
  Cat(<<WB, Grp(1, MonthName), S1, Grp(2, DayToken), S0, C("-"), S0, Grp(3, DayToken),
        Opt(Cat(<<C(","), S0, Grp(4, Rep(D, 2, 4))>>))>>)
\* lines 105-112
month_day_pattern ==
  Cat(<<WB, Grp(1, MonthName), S1, Grp(2, DayToken),
        Opt(Cat(<<Opt(C(",")), S0, Grp(3, Rep(D, 2, 4))>>))>>)
\* lines 133-138
numeric_range_pattern ==
  Cat(<<WB, Grp(1, Rep(D, 1, 2)), Chr({"/", "-"}), Grp(2, Rep(D, 1, 2)),
        Opt(Cat(<<Chr({"/", "-"}), Grp(3, Rep(D, 2, 4))>>)),
        S0, Alt(<<C("-"), LitI(<<"t","o">>)>>), S0,
        Grp(4, Rep(D, 1, 2)), Chr({"/", "-"}), Grp(5, Rep(D, 1, 2)),
        Opt(Cat(<<Chr({"/", "-"}), Grp(6, Rep(D, 2, 4))>>))>>)

\* lines 33-38, _normalize_text of date_ocr_utils.py
DateNormalized(text) ==
  Sub(S1, <<" ">>,
      [k \in 1..Len(text) |-> IF text[k] \in {ENDASH, EMDASH} THEN "-"
                              ELSE IF text[k] = NBSP THEN " " ELSE text[k]])

\* MONTHS[name.lower()]: the month of a name that MonthName matches
MonthOf(month_name) ==
  CASE SubSeq(ToLower(month_name), 1, 3) = <<"j","a","n">> -> 1
    [] SubSeq(ToLower(month_name), 1, 3) = <<"f","e","b">> -> 2
    [] SubSeq(ToLower(month_name), 1, 3) = <<"m","a","r">> -> 3
    [] SubSeq(ToLower(month_name), 1, 3) = <<"a","p","r">> -> 4
    [] SubSeq(ToLower(month_name), 1, 3) = <<"m","a","y">> -> 5
    [] SubSeq(ToLower(month_name), 1, 3) = <<"j","u","n">> -> 6
    [] SubSeq(ToLower(month_name), 1, 3) = <<"j","u","l">> -> 7
    [] SubSeq(ToLower(month_name), 1, 3) = <<"a","u","g">> -> 8
    [] SubSeq(ToLower(month_name), 1, 3) = <<"s","e","p">> -> 9
    [] SubSeq(ToLower(month_name), 1, 3) = <<"o","c","t">> -> 10
    [] SubSeq(ToLower(month_name), 1, 3) = <<"n","o","v">> -> 11
    [] SubSeq(ToLower(month_name), 1, 3) = <<"d","e","c">> -> 12

\* int(ORDINAL_SUFFIX_RE.sub("", raw))
DayOf(raw) == ParseInt(Sub(ORDINAL_SUFFIX_RE, <<>>, raw))

DaysIn(y, m) ==
  IF m \in {4, 6, 9, 11} THEN 30
  ELSE IF m = 2 THEN (IF y % 4 = 0 /\ (y % 100 # 0 \/ y % 400 = 0) THEN 29 ELSE 28)
  ELSE 31

\* lines 41-45: date(y, m, d) is a date
_safe_date(y, m, d) == y \in 1..9999 /\ m \in 1..12 /\ d \in 1..DaysIn(y, m)

\* a or b, of two groups
OrGroup(a, b) == IF a = NoGroup THEN b ELSE a

\* lines 48-57, for a default_year that is given
_year_or_default(year_str, default_year) ==
  IF year_str # NoGroup
  THEN (IF ParseInt(year_str) < 100 THEN ParseInt(year_str) + 2000 ELSE ParseInt(year_str))
  ELSE default_year

\* lines 90-101, m being the match of month_range_pattern
MonthRangeDated(t, m, default_year) ==
  /\ m.ok
  /\ _safe_date(_year_or_default(Group(t, m, 4), default_year), MonthOf(Group(t, m, 1)),
                DayOf(Group(t, m, 2)))
  /\ _safe_date(_year_or_default(Group(t, m, 4), default_year), MonthOf(Group(t, m, 1)),
                DayOf(Group(t, m, 3)))

\* lines 114-130, ms being the matches of month_day_pattern
MonthDaysDated(t, ms, default_year) ==
  /\ Len(ms) >= 2
  /\ _safe_date(_year_or_default(OrGroup(Group(t, ms[1], 3), Group(t, ms[2], 3)), default_year),
                MonthOf(Group(t, ms[1], 1)), DayOf(Group(t, ms[1], 2)))
  /\ _safe_date(_year_or_default(OrGroup(Group(t, ms[2], 3), Group(t, ms[1], 3)), default_year),
                MonthOf(Group(t, ms[2], 1)), DayOf(Group(t, ms[2], 2)))

\* lines 140-152, m being the match of numeric_range_pattern
NumericRangeDated(t, m, default_year) ==
  /\ m.ok
  /\ _safe_date(_year_or_default(OrGroup(Group(t, m, 3), Group(t, m, 6)), default_year),
                ParseInt(Group(t, m, 1)), ParseInt(Group(t, m, 2)))
  /\ _safe_date(_year_or_default(OrGroup(Group(t, m, 6), Group(t, m, 3)), default_year),
                ParseInt(Group(t, m, 4)), ParseInt(Group(t, m, 5)))

\* lines 76-155, t being the normalized text
RangeIn(t, default_year) ==
  \/ MonthRangeDated(t, Search(month_range_pattern, t), default_year)
  \/ MonthDaysDated(t, FindAll(month_day_pattern, t), default_year)
  \/ NumericRangeDated(t, Search(numeric_range_pattern, t), default_year)

\* lines 60-155: extract_date_range(ocr_text, default_year) returns two dates
DatesFound(ocr_text, default_year) ==
  ocr_text # <<>> /\ RangeIn(DateNormalized(ocr_text), default_year)

----------------------------------------------------------------------------
(* date_ocr_runner.py: ocr_image and the body of the loop of run_for_week, on  *)
(* the two files of the guardrails; text is what OCR gives for the image, or   *)
(* RAISED when preprocess_for_ocr, Image.open or image_to_string raises        *)

RAISED == <<"<exception>">>
MAX_FAILS == 3
R_OK        == <<"O","K">>
R_EMPTY_TEXT == <<"E","M","P","T","Y","_","T","E","X","T">>
R_EXCEPTION == <<"E","X","C","E","P","T","I","O","N",":","O","S","E","r","r","o","r">>
R_3X_EMPTY  == <<"F","A","I","L","E","D","_","3","X","_","E","M","P","T","Y","_","T","E","X","T">>
R_3X_EXCEPTION == <<"F","A","I","L","E","D","_","3","X","_","E","X","C","E","P","T","I","O","N",":","O","S","E","r","r","o","r">>
R_NO_DATE   == <<"N","O","_","D","A","T","E","_","F","O","U","N","D">>
R_MAX_FAILS_REACHED == <<"M","A","X","_","F","A","I","L","S","_","R","E","A","C","H","E","D">>

\* the two files and the text returned
OcrResult(attempts, manual, text) == [attempts |-> attempts, manual |-> manual, text |-> text]

\* lines 64-67: the image is given up
OcrGivenUp(attempts, manual, store_id, week_code, source_file, fails, ts) ==
  OcrResult(log_ocr_attempt(attempts, store_id, week_code, source_file, fails + 1, S_FAIL,
                            R_MAX_FAILS_REACHED, ts),
            mark_manual_needed(manual, store_id, week_code, source_file, R_MAX_FAILS_REACHED, ts),
            <<>>)

\* lines 79-82 and 84-95: the attempt failed for the log reason, and is marked
\* for mark_reason if it is the third failure counted
OcrFailed(attempts, manual, store_id, week_code, source_file, fails, reason, mark_reason, ts) ==
  OcrResult(log_ocr_attempt(attempts, store_id, week_code, source_file, fails + 1, S_FAIL,
                            reason, ts),
            IF fails + 1 >= MAX_FAILS
            THEN mark_manual_needed(manual, store_id, week_code, source_file, mark_reason, ts)
            ELSE manual,
            <<>>)

\* lines 69-95: the image is tried
OcrTried(attempts, manual, store_id, week_code, source_file, fails, text, ts) ==
  IF text = RAISED
  THEN OcrFailed(attempts, manual, store_id, week_code, source_file, fails, R_EXCEPTION,
                 R_3X_EXCEPTION, ts)
  ELSE IF Strip(text, Space) # <<>>
  THEN OcrResult(log_ocr_attempt(attempts, store_id, week_code, source_file, fails + 1, S_OK,
                                 R_OK, ts),
                 manual, text)
  ELSE OcrFailed(attempts, manual, store_id, week_code, source_file, fails, R_EMPTY_TEXT,
                 R_3X_EMPTY, ts)

\* lines 57-95, fails being get_fail_count(store_id, week_code, source_file)
OcrWith(attempts, manual, store_id, week_code, source_file, fails, text, ts) ==
  IF fails >= MAX_FAILS
  THEN OcrGivenUp(attempts, manual, store_id, week_code, source_file, fails, ts)
  ELSE OcrTried(attempts, manual, store_id, week_code, source_file, fails, text, ts)

\* lines 57-95: ocr_image(image_path, store_id, week_code) at the time ts
ocr_image(attempts, manual, store_id, week_code, source_file, text, ts) ==
  OcrWith(attempts, manual, store_id, week_code, source_file,
          get_fail_count(attempts, store_id, week_code, source_file), text, ts)

\* lines 146-169: the body of the loop of run_for_week after ocr_image gave r;
\* date_ocr_failures.csv is left out
WeekAfter(r, store_id, week_code, source_file, default_year, ts) ==
  IF DatesFound(r.text, default_year) THEN r
  ELSE [r EXCEPT !.attempts = log_ocr_attempt(r.attempts, store_id, week_code, source_file,
                                              999, S_FAIL, R_NO_DATE, ts)]

----------------------------------------------------------------------------
(* parse_debug_week.py: main, the rows it builds for the offer files of one    *)
(* _debug_offers folder and the parsed_week.csv it writes from them            *)

\* lines 103-116: fieldnames
WeekFields ==
  <<<<"p","a","g","e">>,
    <<"f","i","l","e">>,
    <<"o","k">>,
    <<"r","e","a","s","o","n">>,
    <<"i","t","e","m","_","n","a","m","e">>,
    <<"s","a","l","e","_","p","r","i","c","e">>,
    <<"u","n","i","t">>,
    <<"i","s","_","m","u","l","t","i","b","u","y">>,
    <<"m","u","l","t","i","b","u","y","_","q","t","y">>,
    <<"m","u","l","t","i","b","u","y","_","t","o","t","a","l">>,
    <<"c","o","n","f","i","d","e","n","c","e">>,
    <<"s","n","i","p","p","e","t">>>>

\* the folder of the page and the name of its k-th offer file, as the segmenter
\* names them: "page_1_offers" and f"offer_{k:04d}.txt"
PAGE_DIR == <<"p","a","g","e","_","1","_","o","f","f","e","r","s">>
ZeroPad(ds, n) == [k \in 1..(n - Len(ds)) |-> "0"] \o ds
OfferName(k) == <<"o","f","f","e","r","_">> \o ZeroPad(Str(k), 4) \o <<".","t","x","t">>

\* f"{v:.2f}" of a price v that is not None
Format2f(v) ==
  Str(RoundDiv(v, 100) \div 100) \o <<".">> \o ZeroPad(Str(RoundDiv(v, 100) % 100), 2)

\* lines 135-137: snippet
Snippet(blob, n) == IF n > 0 THEN Prefix(JoinSplit(blob), n) ELSE JoinSplit(blob)

\* the reason as it is written to the file
ReasonText(reason) ==
  CASE reason = "ok" -> <<"o","k">>
    [] reason = "empty_blob" -> <<"e","m","p","t","y","_","b","l","o","b">>
    [] reason = "no_price_or_percent" -> <<"n","o","_","p","r","i","c","e","_","o","r","_","p","e","r","c","e","n","t">>
    [] reason = "no_item_name" -> <<"n","o","_","i","t","e","m","_","n","a","m","e">>
    [] reason = "low_confidence" -> <<"l","o","w","_","c","o","n","f","i","d","e","n","c","e">>

\* the unit as it is written to the file: deal.unit or ""
UnitText(unit) ==
  CASE unit = "lb" -> <<"l","b">>
    [] unit = "ea" -> <<"e","a">>
    [] unit = None -> <<>>

\* line 148: f"{deal.sale_price:.2f}" of a deal without a price, None having no
\* such format: TypeError
RowRaises(d) == d # NoDeal /\ d.sale_price = Null

\* lines 139-156: the row appended for a deal with a price
DealRow(page, file, d, snip) ==
  <<page, file, <<"1">>, ReasonText("ok"), d.item_name, Format2f(d.sale_price),
    UnitText(d.unit),
    IF d.is_multibuy THEN <<"1">> ELSE <<"0">>,
    IF d.multibuy_qty \in {Null, 0} THEN <<>> ELSE Str(d.multibuy_qty),
    IF d.multibuy_total \in {Null, 0} THEN <<>> ELSE Format2f(d.multibuy_total),
    Str(d.confidence), snip>>

\* lines 157-173: the row appended for a blob that gave no deal
RejectRow(page, file, reason, snip) ==
  <<page, file, <<"0">>, ReasonText(reason), <<>>, <<>>, <<>>, <<>>, <<>>, <<>>, <<>>, snip>>

\* lines 129-173: what one offer file adds to rows
RowsOf(page, file, blob, r, n) ==
  IF r[1] # NoDeal THEN <<DealRow(page, file, r[1], Snippet(blob, n))>>
  ELSE <<RejectRow(page, file, r[2], Snippet(blob, n))>>

RECURSIVE writerows(_)
\* w.writerows(rows)
writerows(rs) == IF rs = <<>> THEN <<>> ELSE writerow(Head(rs)) \o writerows(Tail(rs))

\* lines 175-179: the file written
WeekCsv(rs) == writerow(WeekFields) \o writerows(rs)

----------------------------------------------------------------------------
(* chunk_ocr_to_debug_offers.py: the segmenter *)


JUNK_EXACT ==
  {<<"a","d","d"," ","t","o"," ","c","a","r","t">>,
   <<"r","e","g","u","l","a","r"," ","p","r","i","c","e","s"," ","v","a","r","y">>}

\* r"^\s*valid\s+\d{1,2}/\d{1,2}\s*-\s*\d{1,2}/\d{1,2}", re.IGNORECASE
VALID_RE ==
  Cat(<<BOL, S0, LitI(<<"v","a","l","i","d">>), S1, DayMonth, S0, C("-"), S0, DayMonth>>)
WS_RE == S1
DIGIT_RE == D
\* r"(%\s*off|\bprime\b)", re.IGNORECASE
PCT_OR_PRIME_RE ==
  Alt(<<Cat(<<C("%"), S0, LitI(<<"o","f","f">>)>>),
        Cat(<<WB, LitI(<<"p","r","i","m","e">>), WB>>)>>)

\* \$?\s*
DollarSpace == Cat(<<Opt(C("$")), S0>>)
\* \s*\.\s*\d{2}
DotCents == Cat(<<S0, C("."), S0, Rep(D, 2, 2)>>)
\* \s+\d{2}
SpaceCents == Cat(<<S1, Rep(D, 2, 2)>>)
PRICE_TOKEN_RE ==
  Alt(<<Cat(<<DollarSpace, Plus(D), DotCents>>),                                \* 6.97, 6 . 97, $6.97
        Cat(<<DollarSpace, Rep(D, 1, 3), SpaceCents, WB>>),                     \* 6 97
        Cat(<<WB, Plus(D), S0, Chr({CENT, "c", "C"}), WB>>),                    \* 97c
        Cat(<<WB, Plus(D), S0, C("/"), S0, DollarSpace, Plus(D),
              Opt(Alt(<<DotCents, SpaceCents>>)), WB>>),                        \* 2/$5, 2/5, 2/$5.00
        Cat(<<C("/"), S0, Alt(<<LitI(<<"l","b">>), LitI(<<"i","b">>)>>), WB>>)>>) \* /lb, /ib

\* s.replace(" ", " ")
NoNbsp(s) == [k \in 1..Len(s) |-> IF s[k] = NBSP THEN " " ELSE s[k]]

norm_line(s) == Sub(WS_RE, <<" ">>, Strip(NoNbsp(s), Space \cup {NBSP}))

\* lines 51-58: a blank for a line that normalizes to nothing, no entry for a
\* junk line
CleanOne(t) == IF t = <<>> THEN <<<<>>>> ELSE IF ToLower(t) \in JUNK_EXACT THEN <<>> ELSE <<t>>

RECURSIVE CleanEach(_)
CleanEach(raws) ==
  IF raws = <<>> THEN <<>> ELSE CleanOne(norm_line(Head(raws))) \o CleanEach(Tail(raws))

\* lines 61-70: the positions kept when only the first blank of a run is
NotRepeatedBlank(out) == {k \in 1..Len(out) : out[k] = <<>> => (k = 1 \/ out[k - 1] # <<>>)}

\* lines 73-76: without the blanks at either end
TrimBlanks(ls) ==
  IF \A k \in 1..Len(ls) : ls[k] = <<>> THEN <<>>
  ELSE SubSeq(ls, Min({k \in 1..Len(ls) : ls[k] # <<>>}), Max({k \in 1..Len(ls) : ls[k] # <<>>}))

Collapsed(out) == TrimBlanks(CharsAt(out, NotRepeatedBlank(out)))

clean_lines(text) == Collapsed(CleanEach(SplitLines(text)))

\* where the blocks of lines start and where the block that starts at a stops
BlockStarts(lines) == {k \in 1..Len(lines) : lines[k] # <<>> /\ (k = 1 \/ lines[k - 1] = <<>>)}
BlockStop(lines, a) == Min({k \in a..Len(lines) : lines[k] = <<>>} \cup {Len(lines) + 1}) - 1

split_blocks(lines) ==
  [n \in 1..Cardinality(BlockStarts(lines)) |->
     SubSeq(lines, NthOf(BlockStarts(lines), n), BlockStop(lines, NthOf(BlockStarts(lines), n)))]

\* " ".join(block).strip()
RECURSIVE SpaceJoin(_)
SpaceJoin(ls) ==
  IF ls = <<>> THEN <<>>
  ELSE IF Len(ls) = 1 THEN ls[1]
  ELSE ls[1] \o <<" ">> \o SpaceJoin(Tail(ls))

block_text(block) == Strip(SpaceJoin(block), Space)

\* line 294: the text of the merged lines that are not blank
MergedText(merged_lines) == block_text(SelectSeq(merged_lines, LAMBDA x : x # <<>>))


has_price_token(text) == Found(PRICE_TOKEN_RE, Strip(text, Space))
has_any_digits(text) == Found(DIGIT_RE, text)
has_pct_or_prime(text) == Found(PCT_OR_PRIME_RE, text)

\* a faulty variant: the merge never stops early
PriceFound_Never(merged_lines) == FALSE

\* lines 294-295
PriceFound(merged_lines) == has_price_token(MergedText(merged_lines))

\* the lines of the block that are not "Valid ..." lines
NonValid(block) == SelectSeq(block, LAMBDA x : ~Found(VALID_RE, x))

should_keep_block(block, min_len) ==
  IF NonValid(block) = <<>> THEN has_price_token(block_text(block))
  ELSE Len(block_text(block)) >= min_len

\* is_merge_target from the text of the block
MergeTargetText(txt) ==
  IF txt = <<>> THEN FALSE ELSE IF has_price_token(txt) THEN TRUE ELSE has_any_digits(txt)
is_merge_target(block) == MergeTargetText(block_text(block))

\* needs_price_rescue from the text of the block
PriceRescueText(txt) ==
  IF txt = <<>> THEN TRUE ELSE IF has_price_token(txt) THEN FALSE ELSE has_pct_or_prime(txt)
needs_price_rescue(block) == PriceRescueText(block_text(block))

\* a faulty variant: the blocks absorbed are not marked used
Merge_Unmarked(lines, used_now, absorbed) == [lines |-> lines, used |-> {}, absorbed |-> absorbed]

\* the state of the rescue merge of a head block: merged_lines, used, and the
\* blocks absorbed, in the order they were
Merge(lines, used_now, absorbed) == [lines |-> lines, used |-> used_now, absorbed |-> absorbed]

\* lines 282-296 from k on: the blocks i + k, ..., i + lookahead looked at in turn
RECURSIVE RescueFrom(_, _, _, _, _)
RescueFrom(page_blocks, head, m, k, lookahead) ==
  IF k > lookahead THEN m
  ELSE IF head + k > Len(page_blocks) \/ (head + k) \in m.used
          \/ ~is_merge_target(page_blocks[head + k])
       THEN RescueFrom(page_blocks, head, m, k + 1, lookahead)
  ELSE IF PriceFound(m.lines \o <<<<>>>> \o page_blocks[head + k])
       THEN Merge(m.lines \o <<<<>>>> \o page_blocks[head + k], m.used \cup {head + k},
                  Append(m.absorbed, head + k))
  ELSE RescueFrom(page_blocks, head,
                  Merge(m.lines \o <<<<>>>> \o page_blocks[head + k], m.used \cup {head + k},
                        Append(m.absorbed, head + k)),
                  k + 1, lookahead)

\* line 298: "\n".join(merged_lines).strip()
ChunkOf(merged_lines) == Strip(JoinLines(merged_lines), Space)

----------------------------------------------------------------------------
(* offer_clusterer.py: words with boxes, clusters around price words *)

OcrWord(text, x0, y0, x1, y1, wconf) ==
  [text |-> text, x0 |-> x0, y0 |-> y0, x1 |-> x1, y1 |-> y1, conf |-> wconf]

OfferCluster(page_index, bbox, anchor_text, ws) ==
  [page_index |-> page_index, bbox |-> bbox, anchor_text |-> anchor_text, words |-> ws]

\* ^\$?\d{1,3}(?:\.\d{2})$
PRICE_DOLLAR_RE == Cat(<<BOL, Opt(C("$")), Rep(D, 1, 3), C("."), Rep(D, 2, 2), EOL>>)
\* ^\d+\s*/\s*\$?\d{1,3}(?:\.\d{2})?$ , MULTIBUY_RE of offer_clusterer.py
CLUSTER_MULTIBUY_RE ==
  Cat(<<BOL, Plus(D), S0, C("/"), S0, Opt(C("$")), Rep(D, 1, 3),
        Opt(Cat(<<C("."), Rep(D, 2, 2)>>)), EOL>>)
\* ^\d{1,2}¢$ , CENTS_RE of offer_clusterer.py
CLUSTER_CENTS_RE == Cat(<<BOL, Rep(D, 1, 2), C(CENT), EOL>>)

\* default_store_knobs()["shaws"] and ["wegmans"], without pad_px
SHAWS_IGNORE == Cat(<<BOL, Alt(<<LitI(<<"u">>), LitI(<<"c","l","u","b">>), LitI(<<"a","p","p">>),
                                 LitI(<<"q","r">>)>>), EOL>>)
WEGMANS_IGNORE == Cat(<<BOL, Alt(<<LitI(<<"n","g">>), LitI(<<"f","p">>)>>), EOL>>)
ShawsKnobs ==
  [min_word_conf |-> 25, anchor_conf |-> 35, radius_px |-> 380, min_words_per_offer |-> 3,
   max_offers_per_page |-> 400, ignore_regex |-> SHAWS_IGNORE]
WegmansKnobs ==
  [min_word_conf |-> 35, anchor_conf |-> 40, radius_px |-> 260, min_words_per_offer |-> 4,
   max_offers_per_page |-> 250, ignore_regex |-> WEGMANS_IGNORE]

\* lines 88-89: without spaces, and S for $ in a short token that starts with S
PriceTokenText(t) ==
  IF Remove(t, " ") # <<>> /\ Head(Remove(t, " ")) = "S" /\ Len(Remove(t, " ")) <= 6
  THEN [k \in 1..Len(Remove(t, " ")) |->
          IF Remove(t, " ")[k] = "S" THEN "$" ELSE Remove(t, " ")[k]]
  ELSE Remove(t, " ")

LikePrice(t) ==
  \/ Found(PRICE_DOLLAR_RE, t)
  \/ Found(CLUSTER_MULTIBUY_RE, t)
  \/ Found(CLUSTER_CENTS_RE, t)

looks_like_price_token(t) ==
  IF Strip(t, Space) = <<>> THEN FALSE ELSE LikePrice(PriceTokenText(Strip(t, Space)))

\* dist(a, b) <= radius, on twice the centres
WithinRadius(a, b, radius) ==
  (a.x0 + a.x1 - b.x0 - b.x1) * (a.x0 + a.x1 - b.x0 - b.x1)
  + (a.y0 + a.y1 - b.y0 - b.y1) * (a.y0 + a.y1 - b.y0 - b.y1)
  <= 4 * radius * radius

BoxOf(w) == <<w.x0, w.y0, w.x1, w.y1>>

merge_bbox(b1, b2) ==
  <<Min({b1[1], b2[1]}), Min({b1[2], b2[2]}), Max({b1[3], b2[3]}), Max({b1[4], b2[4]})>>

\* inter and area1 + area2 - inter of iou
Inter(b1, b2) ==
  Max({0, Min({b1[3], b2[3]}) - Max({b1[1], b2[1]})})
  * Max({0, Min({b1[4], b2[4]}) - Max({b1[2], b2[2]})})
BoxArea(b) == Max({1, b[3] - b[1]}) * Max({1, b[4] - b[2]})

\* a faulty variant: boxes that touch overlap

\* iou(b1, b2) >= 0.35
Overlapping(b1, b2) ==
  IF Inter(b1, b2) = 0 THEN FALSE
  ELSE 100 * Inter(b1, b2) >= 35 * (BoxArea(b1) + BoxArea(b2) - Inter(b1, b2))

\* lines 142-150
Usable(w, knobs) ==
  /\ w.conf >= knobs.min_word_conf
  /\ ~Found(knobs.ignore_regex, Strip(w.text, Space))
  /\ Strip(w.text, Space) # <<>>

\* lines 153-158
IsAnchor(w, knobs) == w.conf >= knobs.anchor_conf /\ looks_like_price_token(Strip(w.text, Space))

RECURSIVE BoxAround(_, _)
\* bbox after the members ws
BoxAround(bbox, ws) ==
  IF ws = <<>> THEN bbox ELSE BoxAround(merge_bbox(bbox, BoxOf(Head(ws))), Tail(ws))

\* lines 163-169: members and bbox of the anchor a
MembersOf(a, usable_words, radius) == SelectSeq(usable_words, LAMBDA w : WithinRadius(a, w, radius))

ClusterOf(a, members) == OfferCluster(0, BoxAround(BoxOf(a), members), a.text, members)

\* sorted(xs, key=...): the place of xs[k] in the order of Before, equal keys
\* in the order they were
PlaceOf(xs, k, Before(_, _)) ==
  1 + Cardinality({j \in 1..Len(xs) :
                     Before(xs[j], xs[k]) \/ (~Before(xs[k], xs[j]) /\ j < k)})
SortedBy(xs, Before(_, _)) ==
  [r \in 1..Len(xs) |-> xs[CHOOSE k \in 1..Len(xs) : PlaceOf(xs, k, Before) = r]]

\* (w.y0, w.x0) and (c.bbox[1], c.bbox[0])
WordBefore(v, w) == v.y0 < w.y0 \/ (v.y0 = w.y0 /\ v.x0 < w.x0)
ClusterBefore(c, d) ==
  c.bbox[2] < d.bbox[2] \/ (c.bbox[2] = d.bbox[2] /\ c.bbox[1] < d.bbox[1])

\* (w.x0, w.y0, w.x1, w.y1, (w.text or ""))
WordKey(w) == <<w.x0, w.y0, w.x1, w.y1, w.text>>

\* a faulty variant: the words of c are appended as they are
UnionWords_All(mws, cws) == mws \o cws

RECURSIVE UnionWords(_, _)
\* lines 197-202: m.words after the words cws of c
UnionWords(mws, cws) ==
  IF cws = <<>> THEN mws
  ELSE IF \E k \in 1..Len(mws) : WordKey(mws[k]) = WordKey(Head(cws))
       THEN UnionWords(mws, Tail(cws))
       ELSE UnionWords(Append(mws, Head(cws)), Tail(cws))

\* the first cluster of ms that c overlaps, 0 for none
FirstOverlap(ms, c) ==
  IF \E k \in 1..Len(ms) : Overlapping(c.bbox, ms[k].bbox)
  THEN Min({k \in 1..Len(ms) : Overlapping(c.bbox, ms[k].bbox)})
  ELSE 0

\* lines 193-203: m with c merged into it
MergedInto(m, c) ==
  [m EXCEPT !.bbox = merge_bbox(m.bbox, c.bbox), !.words = UnionWords(m.words, c.words)]

----------------------------------------------------------------------------
(* chunk_ocr_to_debug_offers.py: the fallback, windows of text around the     *)
(* price tokens. Positions are those of Python, from 0; a window <<s, e>> is  *)
(* t[s:e].                                                                     *)

ALDI_LIKE_STORES == {<<"a","l","d","i">>}

\* lines 177-179: t
FallbackText(text) ==
  Sub(RepInf(C("\n"), 3), <<"\n", "\n">>, Sub(Plus(Chr({" ", "\t"})), <<" ">>, NoNbsp(text)))

\* line 181: the hits as <<m.start(), m.end()>>
Spans(ms) == [k \in DOMAIN ms |-> <<ms[k].b - 1, ms[k].e - 1>>]
Hits(t) == Spans(FindAll(PRICE_TOKEN_RE, t))

\* lines 187-189: the window of a hit
WindowOf(hit, len, before, after) ==
  <<Max({0, hit[1] - before}), Min({len, hit[2] + after})>>

\* lines 185-189
WindowsOf(hits, len, before, after) ==
  [k \in DOMAIN hits |-> WindowOf(hits[k], len, before, after)]

\* the order of tuples, for windows.sort()
WindowBefore(v, w) == v[1] < w[1] \/ (v[1] = w[1] /\ v[2] < w[2])

\* a faulty variant: windows are merged only when they touch or overlap
MergeGap_None == 30 - 30

\* line 199: the gap up to which a window is merged into the one before
MergeGap == 30

\* lines 195-202: merged after the window w
MergedWith(ms, w) ==
  IF ms = <<>> THEN <<w>>
  ELSE IF w[1] <= ms[Len(ms)][2] + MergeGap
       THEN [ms EXCEPT ![Len(ms)] = <<ms[Len(ms)][1], Max({ms[Len(ms)][2], w[2]})>>]
       ELSE Append(ms, w)

RECURSIVE MergeFrom(_, _, _)
\* lines 194-202: the loop from window k on
MergeFrom(ms, ws, k) ==
  IF k > Len(ws) THEN ms ELSE MergeFrom(MergedWith(ms, ws[k]), ws, k + 1)

\* lines 192-202
MergeWindows(ws) == MergeFrom(<<>>, SortedBy(ws, WindowBefore), 1)

\* line 206: t[s:e].strip()
ChunkAt(t, w) == Strip(Slice(t, w[1] + 1, w[2] + 1), Space)

\* line 207
MIN_CHUNK_LEN == 18

\* lines 204-209
ChunksOf(t, ms) ==
  SelectSeq([k \in DOMAIN ms |-> ChunkAt(t, ms[k])], LAMBDA c : Len(c) >= MIN_CHUNK_LEN)

\* the locals of _fallback_price_windows before it is called
NoFallback == [t |-> <<>>, hits |-> <<>>, windows |-> <<>>, merged |-> <<>>, chunks |-> <<>>]

\* lines 204-211, with merged known
FallbackChunks(t, hits, windows, ms) ==
  [t |-> t, hits |-> hits, windows |-> windows, merged |-> ms, chunks |-> ChunksOf(t, ms)]

\* lines 191-211, with the windows known
FallbackMerged(t, hits, windows) == FallbackChunks(t, hits, windows, MergeWindows(windows))

\* lines 182-211, with the hits known
FallbackHits(t, hits, before, after) ==
  IF hits = <<>> THEN [NoFallback EXCEPT !.t = t]
  ELSE FallbackMerged(t, hits, WindowsOf(hits, Len(t), before, after))

\* lines 181-211, with t known
FallbackNormal(t, before, after) == FallbackHits(t, Hits(t), before, after)

\* the locals of _fallback_price_windows(text, before, after) when it returns
FallbackOf(text, before, after) ==
  IF text = <<>> THEN NoFallback ELSE FallbackNormal(FallbackText(text), before, after)

_fallback_price_windows(text, before, after) == FallbackOf(text, before, after).chunks

\* a faulty variant: the offer files of the page are left where they are
_clear_offer_files_Keeps(page_dir) == page_dir

\* lines 150-155: the offer files of the page after the clearing, none
_clear_offer_files(page_dir) == <<>>

\* lines 161-165: offer_0001.txt .. of chunks written over the files of page_dir
OfferFilesOver(page_dir, chunks) ==
  [k \in 1..Max({Len(page_dir), Len(chunks)}) |->
     IF k <= Len(chunks) THEN Strip(chunks[k], Space) \o <<"\n">> ELSE page_dir[k]]

\* lines 158-166: the offer files of the page after the call; it returns
\* len(chunks)
_write_offer_files(page_dir, chunks) == OfferFilesOver(_clear_offer_files(page_dir), chunks)

----------------------------------------------------------------------------
(* Inputs *)

\* largest quantity N of a multi-buy token "N/$M" or "N for $M" in an input
MaxQty == 3
\* largest dollar amount X of a price token "$X.99" in an input
MaxDollars == 2

RECURSIVE Join(_, _)
\* sep.join(parts), leaving out the empty parts
Join(parts, sep) ==
  IF parts = <<>> THEN <<>>
  ELSE LET rest == Join(Tail(parts), sep)
       IN IF Head(parts) = <<>> THEN rest
          ELSE IF rest = <<>> THEN Head(parts)
          ELSE Head(parts) \o sep \o rest

\* "$X.99"
PriceToken(x) == <<"$">> \o Str(x) \o <<".","9","9">>
\* "N/$5.00" and "N for $10"
SlashToken(n) == Str(n) \o <<"/","$","5",".","0","0">>
ForToken(n)   == Str(n) \o <<" ","f","o","r"," ","$","1","0">>
\* the value of the M of the two tokens
SlashTotal == 5 * E4
ForTotal   == 10 * E4

W_BOGO     == <<"B","O","G","O">>
W_BUYONE   == <<"B","u","y"," ","O","n","e"," ","G","e","t"," ","O","n","e">>
W_NOW      == <<"n","o","w">>
W_SALE     == <<"s","a","l","e">>
W_WAS      == <<"w","a","s"," ","4",".","4","9">>
W_PCT      == <<"1","0","%"," ","o","f","f">>
W_LB       == <<"/","l","b">>
W_NAME     == <<"c","h","i","c","k","e","n"," ","b","r","e","a","s","t"," ","f","a","m","i","l","y"," ","p","a","c","k">>
W_RANGE    == <<"$","1",".","9","9","-","$","3",".","9","9">>
W_SAVE     == <<"S","a","v","e"," ","b","i","g">>
W_BLANK    == <<" ","\t","\n">>

BogoFrags  == {W_BOGO, W_BUYONE}
PriceFrags == {PriceToken(x) : x \in 1..MaxDollars}
MultiFrags == {SlashToken(n) : n \in 1..MaxQty} \cup {ForToken(n) : n \in 1..MaxQty}
RulesFrags == BogoFrags \cup PriceFrags \cup MultiFrags
              \cup {W_NOW, W_SALE, W_WAS, W_PCT, W_LB, W_NAME, W_RANGE, W_SAVE, W_BLANK}

\* what may end the second line
EndFrags   == PriceFrags \cup {W_LB, W_PCT, W_NAME}

\* the texts given to decide_price_and_promo: up to three fragments, the first
\* on a line of its own
RulesText(a, b, c) == Join(<<a, Join(<<b, c>>, <<" ">>)>>, <<"\n">>)
\* four distinct prices, with and without the words of the labeled rule
FourPrices == Join(<<PriceToken(1), PriceToken(2), W_WAS, <<"$","3",".","9","9">>>>, <<" ">>)
FourPriceTexts == {FourPrices, W_SALE \o <<" ">> \o FourPrices}
RulesInputs ==
  {RulesText(a, b, c) : a \in RulesFrags \cup {<<>>}, b \in RulesFrags \cup {<<>>},
                        c \in EndFrags \cup {<<>>}}
  \cup FourPriceTexts

\* the lines of the texts given to the offer parser
L_SOUP     == <<"C","a","n","n","e","d"," ","S","o","u","p">>
L_CHICKEN  == <<"B","o","n","e","l","e","s","s"," ","C","h","i","c","k","e","n"," ",
                "B","r","e","a","s","t">>
L_PRIME    == <<"p","r","i","m","e"," ","d","e","a","l">>
L_ABC      == <<"a","b","c">>
L_DOLLAR   == <<"$","1">>
L_LIMIT    == <<"L","i","m","i","t"," ","2"," ","p","e","r"," ","c","u","s","t","o","m","e","r">>
\* "$2.99 /lb" and "$2.99/lb"
L_LB_SPACE == PriceToken(2) \o <<" ">> \o W_LB
L_LB       == PriceToken(2) \o W_LB
\* a word longer than the item name may be, and a second word
L_LONG     == [k \in 1..(MAX_NAME_LEN + 1) |-> "x"] \o <<" ","y","z">>

\* a multi-buy token without the dollar sign
L_BARE     == <<"2","/","5">>

PriceLines == PriceFrags \cup {SlashToken(n) : n \in 1..MaxQty}
              \cup {L_LB_SPACE, L_LB, W_PCT, L_BARE}
NameLines  == {L_SOUP, L_CHICKEN, L_PRIME}
FirstLines == PriceLines \cup NameLines \cup {L_ABC, L_DOLLAR, <<>>}
NextLines  == {<<>>, L_SOUP, L_LB_SPACE, L_LB, PriceToken(1), W_PCT}
LastLines  == {<<>>, L_LIMIT}

\* the texts given to the offer parser: up to three lines, and the percent tile
\* and a bare multi-buy with the long word
SelectInputs ==
  {Join(<<a, b, c>>, <<"\n">>) : a \in FirstLines, b \in NextLines, c \in LastLines}
  \cup {Join(<<W_PCT, L_LONG>>, <<"\n">>), Join(<<L_BARE, L_LONG>>, <<"\n">>), W_BLANK}

\* the texts given to pick_best_sale_price alone: two lines with prices, each
\* with or without a junk context, and empty lines between them; the bonus of a
\* line grows up to line 20
J_SAVE    == <<"s","a","v","e"," ","$","3",".","0","0">>
J_SAVE_LB == <<"s","a","v","e"," ","$","3",".","0","0","/","l","b"," ","e","a","c","h">>
J_PCT_LB  == <<"1","0","%"," ","o","f","f"," ","$","2",".","0","0"," ","p","e","r"," ","l","b"," ","e","a">>
J_NEG     == <<"-","1",".","0","0">>
P_TINY    == <<"$","0",".","0","5">>
P_CENTS   == <<"9","7","c">>
JunkLines  == {J_SAVE, J_SAVE_LB, J_PCT_LB, J_NEG}
CleanLines == {L_BARE, SlashToken(2), PriceToken(1), L_LB, P_TINY, P_CENTS}
LinesBetween == {1, 2, 20, 21}
PickInputs ==
  {a \o [k \in 1..n |-> "\n"] \o b :
     a \in JunkLines \cup CleanLines, b \in JunkLines \cup CleanLines, n \in LinesBetween}
  \cup JunkLines \cup CleanLines

\* the texts given to extract_item_name alone: a line with or without a price,
\* empty lines, and two lines of a name or a price; the same the other way round
W_CANNED   == <<"C","a","n","n","e","d">>
W_SOUP     == <<"S","o","u","p">>
HeadLines  == {PriceToken(1), W_CANNED \o <<" ">> \o PriceToken(1), L_SOUP}
WordLines  == {W_CANNED, W_SOUP, L_SOUP, PriceToken(2)}
EmptyLines == {0, 2, 3, 4}
NameInputs ==
  {a \o [k \in 1..(n + 1) |-> "\n"] \o b \o <<"\n">> \o c :
     a \in HeadLines, b \in WordLines, c \in WordLines \cup {L_LONG}, n \in EmptyLines}
  \cup {b \o <<"\n">> \o c \o [k \in 1..(n + 1) |-> "\n"] \o a :
           a \in HeadLines, b \in WordLines, c \in WordLines, n \in EmptyLines}

\* the words of the pages given to build_offers_from_words: boxes of 10 by 10 on
\* a grid of 150, price words and others, with the confidences and texts the
\* function tells apart; no two with the same box and text
MaxWords == 4
WordAt(text, gx, gy, wconf) == OcrWord(text, 150 * gx, 150 * gy, 150 * gx + 10, 150 * gy + 10, wconf)
PageWords ==
  {WordAt(<<"$","1",".","9","9">>, 2, 0, 90), WordAt(<<"S","2",".","9","9">>, 0, 2, 90), WordAt(<<"2","/","$","5">>, 1, 1, 90),
   WordAt(<<"s","o","u","p">>, 0, 0, 90), WordAt(<<"9","9","<cent>">>, 2, 2, 30), WordAt(<<"C","l","u","b">>, 1, 0, 90),
   WordAt(<<"m","i","l","k">>, 0, 1, 20), WordAt(<<" ">>, 2, 1, 90)}
RECURSIVE WordLists(_)
\* the lists of n words at most
WordLists(n) ==
  IF n = 0 THEN {<<>>}
  ELSE WordLists(n - 1)
       \cup {Append(ws, w) : ws \in {l \in WordLists(n - 1) : Len(l) = n - 1}, w \in PageWords}
DistinctWords(ws) == \A j, k \in 1..Len(ws) : ws[j] = ws[k] => j = k
PageWordLists == {ws \in WordLists(MaxWords) : DistinctWords(ws)}

\* the offer files given to parse_debug_week: one blob for each result of
\* parse_offer_blob_with_reason, up to MaxFiles of them in the folder
MaxFiles == 2
K_PRICED   == Join(<<L_SOUP, PriceToken(1)>>, <<"\n">>)
K_MULTI    == Join(<<L_BARE, L_SOUP>>, <<"\n">>)
K_PERCENT  == Join(<<L_SOUP, W_PCT>>, <<"\n">>)
K_NO_PRICE == L_SOUP
K_NO_NAME  == PriceToken(1)
K_LOW      == Join(<<W_PCT, L_LONG>>, <<"\n">>)
WeekBlobs  == {K_PRICED, K_MULTI, K_PERCENT, W_BLANK, K_NO_PRICE, K_NO_NAME, K_LOW}
RECURSIVE BlobLists(_)
\* the lists of n blobs at most
BlobLists(n) ==
  IF n = 0 THEN {<<>>}
  ELSE BlobLists(n - 1)
       \cup {Append(fs, b) : fs \in {l \in BlobLists(n - 1) : Len(l) = n - 1}, b \in WeekBlobs}
\* --snippet-len: none, one that cuts, the default
SnippetLens == {0, 10, 300}

\* the pieces of the texts given to normalize_ocr_text alone: every rewrite of
\* the function has a piece that triggers it
N_USD_UP   == <<"U","S","D">>
N_US       == <<"u","s">>
N_D        == <<"d">>
N_S        == <<"s">>
N_PRICE    == <<"1",".","9","9">>
N_SPACE    == <<" ">>
N_TAB      == <<"\t">>
N_NEWLINE  == <<"\n">>
N_RETURN   == <<"\r">>
N_POUND    == <<POUND>>
N_DASH     == <<EMDASH>>
NormFrags  == {N_USD_UP, N_US, N_D, N_S, N_PRICE, N_SPACE, N_TAB, N_NEWLINE, N_RETURN,
               N_POUND, N_DASH}

\* up to four pieces, one after the other
NormInputs ==
  {a \o b \o c \o d : a \in NormFrags \cup {<<>>}, b \in NormFrags \cup {<<>>},
                      c \in NormFrags \cup {<<>>}, d \in NormFrags}
  \cup {<<>>}

\* the calls of mark_manual_needed: keys with and without the characters the csv
\* module quotes, and two of the reasons of date_ocr_runner.py
MaxCalls == 3

\* the most blocks on a page given to the segmenter
MaxBlocks == 3
B_PCT   == <<"2","0","%"," ","o","f","f"," ","a","l","l"," ","o","r","g","a","n","i","c"," ","a","p","p","l","e","s">>
B_PRIME == <<"p","r","i","m","e"," ","m","e","m","b","e","r"," ","d","e","a","l"," ","o","n"," ","s","a","l","m","o","n">>
B_TEXT  == <<"f","r","e","s","h"," ","f","r","o","m"," ","l","o","c","a","l"," ","f","a","r","m","s"," ","d","a","i","l","y">>
B_PRICE == <<"$","3",".","9","9"," ","/","l","b">>
B_LIMIT == <<"l","i","m","i","t"," ","2">>
L_VALID == <<"V","a","l","i","d"," ","1","2","/","1","0","-","1","2","/","1","7">>
L_VALID_SPACED == <<"v","a","l","i","d"," ","1","/","2"," ","-"," ","1","/","9">>
L_SALMON  == <<"s","a","l","m","o","n">>
L_SALMONS == <<"s","a","l","m","o","n","s">>
L_JUNK == <<"A","d","d"," ","t","o"," "," ","C","a","r","t">>
MergeBlocks == {B_PCT, B_PRIME, B_TEXT, B_PRICE}
ValidBlocks ==
  {L_VALID, L_VALID_SPACED \o <<" ">> \o B_PRICE, L_VALID \o <<"\n">> \o L_VALID_SPACED, L_VALID \o <<"\n">> \o L_SALMON,
   L_VALID \o <<"\n">> \o L_SALMONS, L_SALMONS \o <<"\n">> \o L_VALID_SPACED \o <<" ">> \o B_PRICE}
BLANK_LINE == <<"\n","\n">>
\* the pages of up to n blocks of bs, a blank line between two blocks
RECURSIVE PagesOf(_, _)
PagesOf(bs, n) ==
  IF n = 0 THEN {<<>>}
  ELSE PagesOf(bs, n - 1) \cup {Join(<<b, p>>, BLANK_LINE) : b \in bs, p \in PagesOf(bs, n - 1)}
\* pages with lines that clean_lines drops, blank lines it collapses, spaces it
\* normalizes
UncleanPages ==
  {<<"\n"," ","\n">> \o B_PCT \o <<"\n">> \o L_JUNK \o <<"\n"," ","\t","\n","\n">> \o B_PRICE \o <<"\n">>,
   <<" ">> \o B_PRIME \o <<"\r","\n","\r","\n",NBSP>> \o B_LIMIT \o <<" "," ","o","z",NBSP,"\n">> \o L_JUNK,
   L_JUNK, <<" ","\n">>}
PageTexts == PagesOf(MergeBlocks, MaxBlocks) \cup PagesOf(ValidBlocks, 2) \cup UncleanPages
\* the runs of date_ocr_runner.py: one image, the texts OCR gives for it, and
\* the log another image may have left
MaxRuns == 4
OCR_STORE == <<"a","l","d","i">>
OCR_WEEK  == <<"w","k","5","1">>
OCR_IMAGE == <<"r","a","w","_","p","n","g","/","p",".","p","n","g">>
OTHER_IMAGE == <<"r","a","w","_","p","n","g","/","q",".","p","n","g">>
T_DATED   == <<"D","e","c"," ","3"," ","-"," ","9">>
T_UNDATED == <<"s","o","u","p">>
T_BLANK   == <<" ","\n">>
OcrTexts  == {T_UNDATED, T_BLANK, RAISED}
WeekTexts == {T_DATED, T_UNDATED, T_BLANK}
\* --year
DefaultYear == 2025
EarlierLog ==
  log_ocr_attempt(log_ocr_attempt(NoFile, OCR_STORE, OCR_WEEK, OTHER_IMAGE, 1, S_FAIL,
                                  R_EMPTY_TEXT, <<"T">>),
                  OCR_STORE, OCR_WEEK, OTHER_IMAGE, 999, S_FAIL, R_NO_DATE, <<"T">>)
\* the texts given to _fallback_price_windows alone: up to MaxHits times a price
\* token and a gap after it, and a text without a price token
MaxHits == 2
H_DOLLAR == <<"$","6",".","9","7">>
H_SPACED == <<"\n","6"," ","9","7">>
HitTexts == {H_DOLLAR, H_SPACED}
G_NONE   == <<>>
G_BLANKS == <<" ","\t"," ","\n","\n","\n","\n",NBSP," ">>
G_30     == <<" ","f","r","e","s","h"," ","e","g","g","s"," ","a","n","d"," ","m","i","l","k"," ","o","n"," ","o","f","f","e","r"," ">>
G_31     == <<" ","f","r","e","s","h"," ","e","g","g","s"," ","a","n","d"," ","m","i","l","k"," ","f","o","r"," ","a"," ","w","e","e","k">>
GapTexts == {G_NONE, G_BLANKS, G_30, G_31}
NO_HIT == <<"a","b","c">>
RECURSIVE WindowTextsOf(_)
\* the texts with n price tokens
WindowTextsOf(n) ==
  IF n = 0 THEN {<<>>}
  ELSE {x \o h \o g : x \in WindowTextsOf(n - 1), h \in HitTexts, g \in GapTexts}
WindowTexts == UNION {WindowTextsOf(n) : n \in 0..MaxHits} \cup {NO_HIT}
\* --fallback-before and --fallback-after: none, a few characters, and 160 and
\* 260 unless given
WindowArgs == {<<0, 0>>, <<2, 3>>, <<160, 260>>}
\* --brand
BrandArgs == {<<>>, <<"a","l","d","i">>, <<" ","A","l","d","i"," ">>, <<"s","h","a","w","s">>}
\* --fallback-min-offers, 10 unless given
MinOffers == {1, 10}
\* the pages of the runs with a brand
P_THREE == Join(<<B_TEXT, B_PCT, B_PRICE>>, BLANK_LINE)
FallbackPages == PagesOf(MergeBlocks, 2) \cup UncleanPages \cup {P_THREE}
\* the offer files of the page left by an earlier run
O_OLD == <<"o","l","d","\n">>
StaleFiles == {<<>>, <<O_OLD, O_OLD, O_OLD, O_OLD>>}
\* --merge-lookahead, 2 unless given, and --min-block-len, 25 unless given
Lookaheads == {1, 2}
MinBlockLens == {25}
StoreIds    == {<<"a">>, <<"a",",","b">>}
WeekCodes   == {<<QUOTE,"w">>}
SourceFiles == {<<"f">>, <<"f","\n","g">>}
R_MAX_FAILS == <<"M","A","X","_","F","A","I","L","S","_","R","E","A","C","H","E","D">>
R_EMPTY     == <<"F","A","I","L","E","D","_","3","X","_","E","M","P","T","Y","_","T","E","X","T">>
ManualReasons == {R_MAX_FAILS, R_EMPTY}
\* datetime.now(timezone.utc).isoformat() at the n-th call: digits and letters,
\* nothing the csv module quotes
Timestamp(n) == <<"T">> \o Str(n)

----------------------------------------------------------------------------
(* The engine as a state machine: one text of an offer block given to the      *)
(* decision engine (decide_price_and_promo) or to the offer parser              *)
(* (parse_offer_blob, parse_offer_blob_with_reason), and then to the decision   *)
(* engine                                                                       *)

VARIABLES
  raw_text,   \* the text of the block (raw_text, blob_text)
  entry,      \* the function called on it
  pc,         \* where the call is
  ext,        \* decide_price_and_promo: the normalized text and what was extracted
  base,       \* decide_price_and_promo: the decision of the rule, not yet calibrated
  decision,   \* decide_price_and_promo: the PriceDecision returned
  pick,       \* parse_offer_blob_with_reason: its local pick
  sig,        \* parse_offer_blob: percent_off, percent_text, has_prime, pick
  name,       \* parse_offer_blob: name
  conf,       \* parse_offer_blob: conf after the clamp, Null before it is computed
  deal,       \* parse_offer_blob: the ParsedDeal returned, NoDeal for None
  result,     \* parse_offer_blob_with_reason: <<deal, status>>
  once,       \* normalize_ocr_text(raw_text), None before the call
  twice,      \* normalize_ocr_text(once), None before the call
  manual_file,  \* the content of manual_ocr_needed.csv, NoFile while it does not exist
  now,          \* the clock: the calls of mark_manual_needed made so far
  calls,        \* the calls of mark_manual_needed made so far: <<key, reason>> of each
  attempts_file,  \* the content of ocr_attempts.csv, NoFile while it does not exist
  ocr_calls,      \* the calls of ocr_image so far: given_up, ok or failed
  args,           \* chunk_ocr_to_debug_offers: merge_lookahead and min_block_len
  blocks,         \* main: the blocks of the page
  i,              \* main: the block the loop is at, counted from 1
  used,           \* main: the blocks marked used
  chunks_normal,  \* main: the chunks of the page so far
  chunk_blocks,   \* for each chunk, the blocks in it: the head block, then the absorbed
  offer_files,    \* the content of offer_0001.txt, offer_0002.txt, ... of the page
  brand,          \* main: the store slug given with --brand, stripped and in lower case
  offers,         \* main: the offers counted so far
  fallback,       \* _fallback_price_windows: t, hits, windows, merged and chunks
  words,          \* build_offers_from_words: the words of the page
  store_knobs,    \* build_offers_from_words: the knobs of the store
  usable,         \* build_offers_from_words: usable
  anchors,        \* build_offers_from_words: anchors
  clusters,       \* build_offers_from_words: clusters
  merged,         \* build_offers_from_words: merged
  at,             \* build_offers_from_words: the anchor or cluster the loop is at, from 1
  week_files,     \* parse_debug_week: the text of each offer file of the _debug_offers folder, in the order read
  snippet_len,    \* parse_debug_week: args.snippet_len
  total,          \* parse_debug_week: total, the offer files read so far
  week_rows,      \* parse_debug_week: rows
  parsed_week     \* the content of parsed_week.csv, NoFile while it does not exist

engine_vars == <<raw_text, entry, pc, ext, base, decision, pick, sig, name, conf, deal, result>>
normalizer_vars == <<once, twice>>
guardrail_vars == <<manual_file, now, calls, attempts_file, ocr_calls>>
segmenter_vars ==
  <<args, blocks, i, used, chunks_normal, chunk_blocks, offer_files, brand, offers, fallback>>
\* what the engine's calls leave alone
clusterer_vars == <<words, store_knobs, usable, anchors, clusters, merged, at>>
batch_vars == <<week_files, snippet_len, total, week_rows, parsed_week>>
other_vars == <<normalizer_vars, guardrail_vars, segmenter_vars, clusterer_vars, batch_vars>>
vars == <<engine_vars, other_vars>>

NoDecision ==
  PriceDecision(Null, Null, None, <<>>, Null, Null, 0, "not_called", "not_called")
NoExt == [t |-> <<>>, prices |-> <<>>, pct |-> Null, xfy |-> <<>>, rng |-> <<>>, unit |-> <<>>]
NoSig == [pct |-> <<Null, <<>>>>, has_prime |-> FALSE, pick |-> NoPick, called |-> FALSE]
NoResult == <<NoDeal, "not_called">>

NormalizerIdle ==
  /\ once = None
  /\ twice = None

\* manual_ocr_needed.csv does not exist
GuardrailIdle ==
  /\ manual_file = NoFile
  /\ now = 0
  /\ calls = <<>>
  /\ attempts_file = NoFile
  /\ ocr_calls = <<>>

NoArgs ==
  [merge_lookahead |-> Null, min_block_len |-> Null, fallback_min_offers |-> Null,
   fallback_before |-> Null, fallback_after |-> Null]

\* no page is being segmented
SegmenterIdle ==
  /\ args = NoArgs
  /\ blocks = <<>>
  /\ i = 0
  /\ used = {}
  /\ chunks_normal = <<>>
  /\ chunk_blocks = <<>>
  /\ offer_files = <<>>
  /\ brand = <<>>
  /\ offers = 0
  /\ fallback = NoFallback

NoKnobs == [min_word_conf |-> Null]

\* no page of words is being clustered
ClustererIdle ==
  /\ words = <<>>
  /\ store_knobs = NoKnobs
  /\ usable = <<>>
  /\ anchors = <<>>
  /\ clusters = <<>>
  /\ merged = <<>>
  /\ at = 0

\* parse_debug_week does not run
BatchIdle ==
  /\ week_files = <<>>
  /\ snippet_len = Null
  /\ total = 0
  /\ week_rows = <<>>
  /\ parsed_week = NoFile

\* nothing but the engine runs
OthersIdle == NormalizerIdle /\ GuardrailIdle /\ SegmenterIdle /\ ClustererIdle /\ BatchIdle

\* the engine has no text and is not called
EngineIdle ==
  /\ raw_text = <<>>
  /\ pc = "idle"
  /\ ext = NoExt
  /\ base = NoDecision
  /\ decision = NoDecision
  /\ pick = NoPick
  /\ sig = NoSig
  /\ name = <<>>
  /\ conf = Null
  /\ deal = NoDeal
  /\ result = NoResult

InitRules ==
  /\ raw_text \in RulesInputs
  /\ entry = "decide_price_and_promo"
  /\ pc = "start"
  /\ ext = NoExt
  /\ base = NoDecision
  /\ decision = NoDecision
  /\ pick = NoPick
  /\ sig = NoSig
  /\ name = <<>>
  /\ conf = Null
  /\ deal = NoDeal
  /\ result = NoResult
  /\ OthersIdle

InitSelect ==
  /\ raw_text \in SelectInputs
  /\ entry \in {"parse_offer_blob", "parse_offer_blob_with_reason"}
  /\ pc = IF entry = "parse_offer_blob" THEN "parse" ELSE "call"
  /\ ext = NoExt
  /\ base = NoDecision
  /\ decision = NoDecision
  /\ pick = NoPick
  /\ sig = NoSig
  /\ name = <<>>
  /\ conf = Null
  /\ deal = NoDeal
  /\ result = NoResult
  /\ OthersIdle

\* decide_price_and_promo; the text normalizes to nothing: the early return
DecideEmpty ==
  /\ pc = "start"
  /\ normalize_ocr_text(raw_text) = <<>>
  /\ decision' = decide_price_and_promo(raw_text)
  /\ pc' = "done"
  /\ UNCHANGED <<raw_text, entry, ext, base, pick, sig, name, conf, deal, result>>
  /\ UNCHANGED other_vars

\* normalization, extraction and the rule cascade, up to the call of
\* _finalize_decision
DecideRule ==
  /\ pc = "start"
  /\ \E t \in {normalize_ocr_text(raw_text)} :
        /\ t # <<>>
        /\ ext' = [t |-> t, prices |-> extract_prices(t), pct |-> extract_percent_off(t),
                   xfy |-> extract_x_for_y(t), rng |-> extract_range(t),
                   unit |-> extract_unit(t)]
        /\ base' = decide_rule(t, ext'.prices, ext'.pct, ext'.xfy, ext'.rng, ext'.unit)
  /\ pc' = "rule"
  /\ UNCHANGED <<raw_text, entry, decision, pick, sig, name, conf, deal, result>>
  /\ UNCHANGED other_vars

\* _finalize_decision and the return
Finalize ==
  /\ pc = "rule"
  /\ decision' = _finalize_decision(base, ext.t, ext.prices, ext.pct, ext.unit)
  /\ pc' = "done"
  /\ UNCHANGED <<raw_text, entry, ext, base, pick, sig, name, conf, deal, result>>
  /\ UNCHANGED other_vars

\* parse_offer_blob_with_reason, lines 580-581: nothing, or less than 5 characters
EmptyBlob ==
  /\ pc = "call"
  /\ TooShort(raw_text)
  /\ result' = <<NoDeal, "empty_blob">>
  /\ pc' = "start"
  /\ UNCHANGED <<raw_text, entry, ext, base, decision, pick, sig, name, conf, deal>>
  /\ UNCHANGED other_vars

\* lines 583-587: the price pick and the percent of the text on one line; with
\* neither the call ends, else parse_offer_blob is called
WithReasonSignals ==
  /\ pc = "call"
  /\ ~TooShort(raw_text)
  /\ pick' = pick_best_sale_price(raw_text)
  /\ IF pick' = NoPick /\ select_extract_percent_off(JoinSplit(raw_text))[1] = Null
     THEN result' = <<NoDeal, "no_price_or_percent">> /\ pc' = "start"
     ELSE result' = result /\ pc' = "parse"
  /\ UNCHANGED <<raw_text, entry, ext, base, decision, sig, name, conf, deal>>
  /\ UNCHANGED other_vars

\* what parse_offer_blob reads off the text before it looks for a name
SignalsOf(blob_text, clean_text) ==
  [pct |-> select_extract_percent_off(clean_text),
   has_prime |-> Found(PRIME_RE, clean_text),
   pick |-> pick_best_sale_price(blob_text),
   called |-> TRUE]

NoSignal(g) == g.pick = NoPick /\ g.pct[1] = Null /\ ~g.has_prime

\* parse_offer_blob, lines 501-514: percent, prime, price pick, and None with
\* none of them
ParseSignals ==
  /\ pc = "parse"
  /\ sig' = SignalsOf(raw_text, CleanText(StrippedLines(raw_text)))
  /\ IF NoSignal(sig')
     THEN deal' = NoDeal /\ pc' = "parsed"
     ELSE deal' = deal /\ pc' = "name"
  /\ UNCHANGED <<raw_text, entry, ext, base, decision, pick, name, conf, result>>
  /\ UNCHANGED other_vars

\* lines 516-527: the candidate the pick came from, the item name, and None
\* without a name
ParseName ==
  /\ pc = "name"
  /\ name' = extract_item_name(raw_text,
                               BestLine(_extract_candidates(StrippedLines(raw_text)),
                                        sig.pick))
  /\ IF name' = <<>>
     THEN deal' = NoDeal /\ pc' = "parsed"
     ELSE deal' = deal /\ pc' = "score"
  /\ UNCHANGED <<raw_text, entry, ext, base, decision, pick, sig, conf, result>>
  /\ UNCHANGED other_vars

\* lines 529-576: the limit, the confidence, and the ParsedDeal or None
ParseScore ==
  /\ pc = "score"
  /\ conf' = Clamp100(DealScore(name, sig.pick, sig.pct))
  /\ deal' = ScoredDeal(name, sig.pick, sig.pct,
                        extract_limit(CleanText(StrippedLines(raw_text))))
  /\ pc' = "parsed"
  /\ UNCHANGED <<raw_text, entry, ext, base, decision, pick, sig, name, result>>
  /\ UNCHANGED other_vars

\* parse_offer_blob was the function called: it has returned deal
ParseReturn ==
  /\ pc = "parsed"
  /\ entry = "parse_offer_blob"
  /\ pc' = "start"
  /\ UNCHANGED <<raw_text, entry, ext, base, decision, pick, sig, name, conf, deal, result>>
  /\ UNCHANGED other_vars

\* parse_offer_blob_with_reason, lines 589-608: the deal, or why there is none
WithReasonReturn ==
  /\ pc = "parsed"
  /\ entry = "parse_offer_blob_with_reason"
  /\ result' = ReasonFor(raw_text, pick, deal)
  /\ pc' = "start"
  /\ UNCHANGED <<raw_text, entry, ext, base, decision, pick, sig, name, conf, deal>>
  /\ UNCHANGED other_vars

\* pick_best_sale_price alone
InitPick ==
  /\ raw_text \in PickInputs
  /\ entry = "pick_best_sale_price"
  /\ pc = "start"
  /\ ext = NoExt
  /\ base = NoDecision
  /\ decision = NoDecision
  /\ pick = NoPick
  /\ sig = NoSig
  /\ name = <<>>
  /\ conf = Null
  /\ deal = NoDeal
  /\ result = NoResult
  /\ OthersIdle

PickBest ==
  /\ entry = "pick_best_sale_price"
  /\ pc = "start"
  /\ pick' = pick_best_sale_price(raw_text)
  /\ pc' = "done"
  /\ UNCHANGED <<raw_text, entry, ext, base, decision, sig, name, conf, deal, result>>
  /\ UNCHANGED other_vars

NextPick == PickBest

SpecPick == InitPick /\ [][NextPick]_vars

\* extract_item_name as parse_offer_blob calls it, lines 511-525: with the
\* candidate the price pick came from, if there is a pick
InitName ==
  /\ raw_text \in NameInputs
  /\ entry = "extract_item_name"
  /\ pc = "start"
  /\ ext = NoExt
  /\ base = NoDecision
  /\ decision = NoDecision
  /\ pick = NoPick
  /\ sig = NoSig
  /\ name = <<>>
  /\ conf = Null
  /\ deal = NoDeal
  /\ result = NoResult
  /\ OthersIdle

PickForName ==
  /\ entry = "extract_item_name"
  /\ pc = "start"
  /\ pick' = pick_best_sale_price(raw_text)
  /\ pc' = "name"
  /\ UNCHANGED <<raw_text, entry, ext, base, decision, sig, name, conf, deal, result>>
  /\ UNCHANGED other_vars

ExtractName ==
  /\ entry = "extract_item_name"
  /\ pc = "name"
  /\ name' = extract_item_name(raw_text,
                               BestLine(_extract_candidates(StrippedLines(raw_text)), pick))
  /\ pc' = "done"
  /\ UNCHANGED <<raw_text, entry, ext, base, decision, pick, sig, conf, deal, result>>
  /\ UNCHANGED other_vars

NextName == PickForName \/ ExtractName

SpecName == InitName /\ [][NextName]_vars

\* normalize_ocr_text alone, called on a text and then on its own result
InitNormalize ==
  /\ raw_text \in NormInputs
  /\ entry = "normalize_ocr_text"
  /\ pc = "start"
  /\ ext = NoExt
  /\ base = NoDecision
  /\ decision = NoDecision
  /\ pick = NoPick
  /\ sig = NoSig
  /\ name = <<>>
  /\ conf = Null
  /\ deal = NoDeal
  /\ result = NoResult
  /\ OthersIdle

NormalizeOnce ==
  /\ entry = "normalize_ocr_text"
  /\ pc = "start"
  /\ once' = normalize_ocr_text(raw_text)
  /\ pc' = "once"
  /\ UNCHANGED <<raw_text, entry, ext, base, decision, pick, sig, name, conf, deal, result>>
  /\ UNCHANGED <<twice, guardrail_vars, segmenter_vars, clusterer_vars, batch_vars>>

NormalizeAgain ==
  /\ entry = "normalize_ocr_text"
  /\ pc = "once"
  /\ twice' = normalize_ocr_text(once)
  /\ pc' = "twice"
  /\ UNCHANGED <<raw_text, entry, ext, base, decision, pick, sig, name, conf, deal, result>>
  /\ UNCHANGED <<once, guardrail_vars, segmenter_vars, clusterer_vars, batch_vars>>

NextNormalize == NormalizeOnce \/ NormalizeAgain

\* the normalizer on the texts of NormInputs
SpecNormalize == InitNormalize /\ [][NextNormalize]_vars

\* sequential calls of mark_manual_needed on one manual_path, the file not
\* existing before the first
InitGuardrail ==
  /\ entry = "mark_manual_needed"
  /\ EngineIdle
  /\ OthersIdle

\* lines 90-99: a row of the file has the key, the call returns
MarkAlready ==
  /\ entry = "mark_manual_needed"
  /\ Len(calls) < MaxCalls
  /\ \E rows \in {ManualRead(manual_file)} :
     \E store_id \in StoreIds, week_code \in WeekCodes, source_file \in SourceFiles,
        reason \in ManualReasons :
        /\ HasRow(rows, <<store_id, week_code, source_file>>)
        /\ manual_file' = MarkWith(manual_file, rows, store_id, week_code, source_file,
                                   reason, Timestamp(now))
        /\ calls' = Append(calls, <<<<store_id, week_code, source_file>>, reason>>)
  /\ now' = now + 1
  /\ UNCHANGED <<engine_vars, normalizer_vars, segmenter_vars, clusterer_vars, batch_vars, attempts_file,
                 ocr_calls>>

\* lines 101-116: no row has the key, or there is no file: the row is appended
MarkAppend ==
  /\ entry = "mark_manual_needed"
  /\ Len(calls) < MaxCalls
  /\ \E rows \in {ManualRead(manual_file)} :
     \E store_id \in StoreIds, week_code \in WeekCodes, source_file \in SourceFiles,
        reason \in ManualReasons :
        /\ ~HasRow(rows, <<store_id, week_code, source_file>>)
        /\ manual_file' = MarkWith(manual_file, rows, store_id, week_code, source_file,
                                   reason, Timestamp(now))
        /\ calls' = Append(calls, <<<<store_id, week_code, source_file>>, reason>>)
  /\ now' = now + 1
  /\ UNCHANGED <<engine_vars, normalizer_vars, segmenter_vars, clusterer_vars, batch_vars, attempts_file,
                 ocr_calls>>

NextGuardrail == MarkAlready \/ MarkAppend

\* mark_manual_needed called up to MaxCalls times
SpecGuardrail == InitGuardrail /\ [][NextGuardrail]_vars

----------------------------------------------------------------------------
(* The date runner as a state machine: calls of ocr_image, alone and from the  *)
(* loop of run_for_week, on one image, up to MaxRuns of them                   *)

InitOcr ==
  /\ entry = "date_ocr_runner"
  /\ EngineIdle
  /\ NormalizerIdle
  /\ SegmenterIdle
  /\ ClustererIdle
  /\ BatchIdle
  /\ manual_file = NoFile
  /\ now = 0
  /\ calls = <<>>
  /\ attempts_file \in {NoFile, EarlierLog}
  /\ ocr_calls = <<>>

\* what a call of ocr_image leaves alone
ocr_frame == <<engine_vars, normalizer_vars, segmenter_vars, clusterer_vars, batch_vars, calls>>

\* lines 61-64: what get_fail_count gives for the image
FailsNow == get_fail_count(attempts_file, OCR_STORE, OCR_WEEK, OCR_IMAGE)

\* the branch of ocr_image taken for the text of an image that is tried
TriedKind(text) == IF text = RAISED \/ Strip(text, Space) = <<>> THEN "failed" ELSE "ok"

\* ocr_image can be called once more
OcrCallable == entry = "date_ocr_runner" /\ Len(ocr_calls) < MaxRuns

\* lines 57-95: ocr_image alone, on an image that is tried
OcrImageTried ==
  /\ OcrCallable
  /\ FailsNow < MAX_FAILS
  /\ \E text \in OcrTexts :
       \E r \in {ocr_image(attempts_file, manual_file, OCR_STORE, OCR_WEEK, OCR_IMAGE, text,
                            Timestamp(now))} :
         /\ attempts_file' = r.attempts
         /\ manual_file' = r.manual
         /\ ocr_calls' = Append(ocr_calls, TriedKind(text))
  /\ now' = now + 1
  /\ UNCHANGED ocr_frame

\* lines 57-67: ocr_image alone, on an image that is given up
OcrImageGivenUp ==
  /\ OcrCallable
  /\ FailsNow >= MAX_FAILS
  /\ \E r \in {ocr_image(attempts_file, manual_file, OCR_STORE, OCR_WEEK, OCR_IMAGE, T_UNDATED,
                          Timestamp(now))} :
       /\ attempts_file' = r.attempts
       /\ manual_file' = r.manual
  /\ ocr_calls' = Append(ocr_calls, "given_up")
  /\ now' = now + 1
  /\ UNCHANGED ocr_frame

\* run_for_week, lines 142-169: the image is tried, and the dates looked for
WeekTried ==
  /\ OcrCallable
  /\ FailsNow < MAX_FAILS
  /\ \E text \in WeekTexts :
       \E r \in {WeekAfter(ocr_image(attempts_file, manual_file, OCR_STORE, OCR_WEEK, OCR_IMAGE,
                                      text, Timestamp(now)),
                            OCR_STORE, OCR_WEEK, OCR_IMAGE, DefaultYear, Timestamp(now))} :
         /\ attempts_file' = r.attempts
         /\ manual_file' = r.manual
         /\ ocr_calls' = Append(ocr_calls, TriedKind(text))
  /\ now' = now + 1
  /\ UNCHANGED ocr_frame

\* run_for_week, lines 142-169: the image is given up, and no dates are found
WeekGivenUp ==
  /\ OcrCallable
  /\ FailsNow >= MAX_FAILS
  /\ \E r \in {WeekAfter(ocr_image(attempts_file, manual_file, OCR_STORE, OCR_WEEK, OCR_IMAGE,
                                    T_DATED, Timestamp(now)),
                          OCR_STORE, OCR_WEEK, OCR_IMAGE, DefaultYear, Timestamp(now))} :
       /\ attempts_file' = r.attempts
       /\ manual_file' = r.manual
  /\ ocr_calls' = Append(ocr_calls, "given_up")
  /\ now' = now + 1
  /\ UNCHANGED ocr_frame

NextOcr == OcrImageTried \/ OcrImageGivenUp \/ WeekTried \/ WeekGivenUp

\* up to MaxRuns calls of ocr_image on the image
SpecOcr == InitOcr /\ [][NextOcr]_vars

----------------------------------------------------------------------------
(* The segmenter as a state machine: main on one page of OCR text, for a brand  *)
(* that is not Aldi-like (the brand when none is given), one step for each      *)
(* block the loop comes to                                                      *)

InitSegment ==
  /\ raw_text \in PageTexts
  /\ entry = "chunk_ocr_to_debug_offers"
  /\ pc = "page"
  /\ ext = NoExt
  /\ base = NoDecision
  /\ decision = NoDecision
  /\ pick = NoPick
  /\ sig = NoSig
  /\ name = <<>>
  /\ conf = Null
  /\ deal = NoDeal
  /\ result = NoResult
  /\ NormalizerIdle
  /\ GuardrailIdle
  /\ ClustererIdle
  /\ BatchIdle
  /\ args \in [merge_lookahead : Lookaheads, min_block_len : MinBlockLens,
               fallback_min_offers : {10}, fallback_before : {160}, fallback_after : {260}]
  /\ blocks = <<>>
  /\ i = 0
  /\ used = {}
  /\ chunks_normal = <<>>
  /\ chunk_blocks = <<>>
  /\ offer_files = <<>>
  /\ brand = <<>>
  /\ offers = 0
  /\ fallback = NoFallback

\* what a step of the segmenter leaves alone
segmenter_frame ==
  <<raw_text, entry, ext, base, decision, pick, sig, name, conf, deal, result,
    normalizer_vars, guardrail_vars, clusterer_vars, batch_vars, args, brand, offers, fallback>>

\* lines 263-267
SplitPage ==
  /\ entry = "chunk_ocr_to_debug_offers"
  /\ pc = "page"
  /\ blocks' = split_blocks(clean_lines(raw_text))
  /\ i' = 1
  /\ used' = {}
  /\ chunks_normal' = <<>>
  /\ pc' = "blocks"
  /\ UNCHANGED <<chunk_blocks, offer_files>>
  /\ UNCHANGED segmenter_frame

\* the loop is at a block
AtBlock ==
  /\ entry = "chunk_ocr_to_debug_offers"
  /\ pc = "blocks"
  /\ i <= Len(blocks)

\* lines 271-273
SkipUsed ==
  /\ AtBlock
  /\ i \in used
  /\ i' = i + 1
  /\ UNCHANGED <<pc, blocks, used, chunks_normal, chunk_blocks, offer_files>>
  /\ UNCHANGED segmenter_frame

\* lines 275-276
DropBlock ==
  /\ AtBlock
  /\ i \notin used
  /\ ~should_keep_block(blocks[i], args.min_block_len)
  /\ i' = i + 1
  /\ UNCHANGED <<pc, blocks, used, chunks_normal, chunk_blocks, offer_files>>
  /\ UNCHANGED segmenter_frame

\* lines 298-302 for the merge m of the block the loop is at
Emit(m) ==
  /\ chunks_normal' =
       IF ChunkOf(m.lines) # <<>> THEN Append(chunks_normal, ChunkOf(m.lines)) ELSE chunks_normal
  /\ chunk_blocks' =
       IF ChunkOf(m.lines) # <<>> THEN Append(chunk_blocks, <<i>> \o m.absorbed) ELSE chunk_blocks
  /\ used' = m.used \cup {i}
  /\ i' = i + 1

\* lines 278-302 for a block that needs no rescue
EmitBlock ==
  /\ AtBlock
  /\ i \notin used
  /\ should_keep_block(blocks[i], args.min_block_len)
  /\ ~needs_price_rescue(blocks[i])
  /\ Emit(Merge(blocks[i], used, <<>>))
  /\ UNCHANGED <<pc, blocks, offer_files>>
  /\ UNCHANGED segmenter_frame

\* lines 278-302 for a block that needs the rescue
RescueMerge ==
  /\ AtBlock
  /\ i \notin used
  /\ should_keep_block(blocks[i], args.min_block_len)
  /\ needs_price_rescue(blocks[i])
  /\ \E m \in {RescueFrom(blocks, i, Merge(blocks[i], used, <<>>), 1, args.merge_lookahead)} :
       Emit(m)
  /\ UNCHANGED <<pc, blocks, offer_files>>
  /\ UNCHANGED segmenter_frame

\* line 304, _write_offer_files
WriteOffers ==
  /\ entry = "chunk_ocr_to_debug_offers"
  /\ pc = "blocks"
  /\ i > Len(blocks)
  /\ offer_files' = _write_offer_files(offer_files, chunks_normal)
  /\ pc' = "written"
  /\ UNCHANGED <<blocks, i, used, chunks_normal, chunk_blocks>>
  /\ UNCHANGED segmenter_frame

\* what the steps of main after the normal mode leave alone
fallback_frame ==
  <<raw_text, entry, ext, base, decision, pick, sig, name, conf, deal, result,
    normalizer_vars, guardrail_vars, clusterer_vars, batch_vars, args, brand,
    blocks, i, used, chunks_normal, chunk_blocks>>

\* line 307: the fallback is to be tried; kept_normal is len(chunks_normal)
FallbackWanted == brand \in ALDI_LIKE_STORES /\ Len(chunks_normal) < args.fallback_min_offers

\* lines 307-312: the call of _fallback_price_windows
RunFallback ==
  /\ entry = "chunk_ocr_to_debug_offers"
  /\ pc = "written"
  /\ FallbackWanted
  /\ fallback' = FallbackOf(raw_text, args.fallback_before, args.fallback_after)
  /\ pc' = "fallback"
  /\ UNCHANGED <<offer_files, offers>>
  /\ UNCHANGED fallback_frame

\* lines 313-320: the fallback chunks are written and counted
WriteFallback ==
  /\ entry = "chunk_ocr_to_debug_offers"
  /\ pc = "fallback"
  /\ fallback.chunks # <<>>
  /\ offer_files' = _write_offer_files(offer_files, fallback.chunks)
  /\ offers' = offers + Len(fallback.chunks)
  /\ pc' = "counted"
  /\ UNCHANGED fallback
  /\ UNCHANGED fallback_frame

\* lines 307, 313 and 322: no fallback or no fallback chunk, the normal chunks
\* are counted
CountNormal ==
  /\ entry = "chunk_ocr_to_debug_offers"
  /\ \/ pc = "written" /\ ~FallbackWanted
     \/ pc = "fallback" /\ fallback.chunks = <<>>
  /\ offers' = offers + Len(chunks_normal)
  /\ pc' = "counted"
  /\ UNCHANGED <<offer_files, fallback>>
  /\ UNCHANGED fallback_frame

NextSegment ==
  SplitPage \/ SkipUsed \/ DropBlock \/ EmitBlock \/ RescueMerge \/ WriteOffers \/ CountNormal

\* a page of a run with a brand, after pages that gave 0 or 7 offers, in a
\* directory with or without the offer files of an earlier run
InitFallback ==
  /\ raw_text \in FallbackPages
  /\ entry = "chunk_ocr_to_debug_offers"
  /\ pc = "page"
  /\ ext = NoExt
  /\ base = NoDecision
  /\ decision = NoDecision
  /\ pick = NoPick
  /\ sig = NoSig
  /\ name = <<>>
  /\ conf = Null
  /\ deal = NoDeal
  /\ result = NoResult
  /\ NormalizerIdle
  /\ GuardrailIdle
  /\ ClustererIdle
  /\ BatchIdle
  /\ \E ba \in {<<0, 0>>, <<160, 260>>} :
       args \in [merge_lookahead : {2}, min_block_len : MinBlockLens,
                 fallback_min_offers : MinOffers, fallback_before : {ba[1]},
                 fallback_after : {ba[2]}]
  /\ blocks = <<>>
  /\ i = 0
  /\ used = {}
  /\ chunks_normal = <<>>
  /\ chunk_blocks = <<>>
  /\ offer_files \in StaleFiles
  \* line 236
  /\ \E b \in BrandArgs : brand = ToLower(Strip(b, Space))
  /\ offers \in {0, 7}
  /\ fallback = NoFallback

NextFallback == NextSegment \/ RunFallback \/ WriteFallback

\* main on a page of FallbackPages, with a brand
SpecFallback == InitFallback /\ [][NextFallback]_vars

----------------------------------------------------------------------------
(* _fallback_price_windows as a state machine, one step for each of its loops *)

InitWindows ==
  /\ raw_text \in WindowTexts
  /\ entry = "_fallback_price_windows"
  /\ pc = "called"
  /\ ext = NoExt
  /\ base = NoDecision
  /\ decision = NoDecision
  /\ pick = NoPick
  /\ sig = NoSig
  /\ name = <<>>
  /\ conf = Null
  /\ deal = NoDeal
  /\ result = NoResult
  /\ NormalizerIdle
  /\ GuardrailIdle
  /\ ClustererIdle
  /\ BatchIdle
  /\ \E ba \in WindowArgs :
       args = [NoArgs EXCEPT !.fallback_before = ba[1], !.fallback_after = ba[2]]
  /\ blocks = <<>>
  /\ i = 0
  /\ used = {}
  /\ chunks_normal = <<>>
  /\ chunk_blocks = <<>>
  /\ offer_files = <<>>
  /\ brand = <<>>
  /\ offers = 0
  /\ fallback = NoFallback

\* what a step of _fallback_price_windows leaves alone
windows_frame == <<fallback_frame, offer_files, offers>>

\* lines 174-175: no text, no chunks
ReturnNoText ==
  /\ entry = "_fallback_price_windows"
  /\ pc = "called"
  /\ raw_text = <<>>
  /\ pc' = "returned"
  /\ UNCHANGED fallback
  /\ UNCHANGED windows_frame

\* lines 177-183: t and the hits; no hits, no chunks
FindHits ==
  /\ entry = "_fallback_price_windows"
  /\ pc = "called"
  /\ raw_text # <<>>
  /\ \E t \in {FallbackText(raw_text)} :
       \E hits \in {Hits(t)} :
         /\ fallback' = [fallback EXCEPT !.t = t, !.hits = hits]
         /\ pc' = IF hits = <<>> THEN "returned" ELSE "hits"
  /\ UNCHANGED windows_frame

\* lines 185-189
BuildWindows ==
  /\ entry = "_fallback_price_windows"
  /\ pc = "hits"
  /\ fallback' = [fallback EXCEPT !.windows = WindowsOf(fallback.hits, Len(fallback.t),
                                                        args.fallback_before,
                                                        args.fallback_after)]
  /\ pc' = "windows"
  /\ UNCHANGED windows_frame

\* lines 192-202
MergeOverlapping ==
  /\ entry = "_fallback_price_windows"
  /\ pc = "windows"
  /\ fallback' = [fallback EXCEPT !.merged = MergeWindows(fallback.windows)]
  /\ pc' = "merged"
  /\ UNCHANGED windows_frame

\* lines 204-211
CutChunks ==
  /\ entry = "_fallback_price_windows"
  /\ pc = "merged"
  /\ fallback' = [fallback EXCEPT !.chunks = ChunksOf(fallback.t, fallback.merged)]
  /\ pc' = "returned"
  /\ UNCHANGED windows_frame

NextWindows == ReturnNoText \/ FindHits \/ BuildWindows \/ MergeOverlapping \/ CutChunks

\* _fallback_price_windows on every text of WindowTexts
SpecWindows == InitWindows /\ [][NextWindows]_vars

\* the segmenter on every page of PageTexts
SpecSegment == InitSegment /\ [][NextSegment]_vars

----------------------------------------------------------------------------
(* The clusterer as a state machine: build_offers_from_words on the words of   *)
(* one page, one step for each anchor and for each cluster of the merge loop   *)

InitCluster ==
  /\ entry = "build_offers_from_words"
  /\ EngineIdle
  /\ NormalizerIdle
  /\ GuardrailIdle
  /\ SegmenterIdle
  /\ BatchIdle
  /\ words \in PageWordLists
  /\ store_knobs \in {ShawsKnobs, WegmansKnobs}
  /\ usable = <<>>
  /\ anchors = <<>>
  /\ clusters = <<>>
  /\ merged = <<>>
  /\ at = 0

\* what a step of the clusterer leaves alone
clusterer_frame ==
  <<raw_text, entry, ext, base, decision, pick, sig, name, conf, deal, result,
    normalizer_vars, guardrail_vars, segmenter_vars, batch_vars, words, store_knobs>>

\* lines 141-158: usable and anchors
FilterWords ==
  /\ entry = "build_offers_from_words"
  /\ pc = "idle"
  /\ usable' = SelectSeq(words, LAMBDA w : Usable(w, store_knobs))
  /\ anchors' = SelectSeq(usable', LAMBDA w : IsAnchor(w, store_knobs))
  /\ at' = 1
  /\ pc' = "anchors"
  /\ UNCHANGED <<clusters, merged>>
  /\ UNCHANGED clusterer_frame

\* the loop over the anchors is at an anchor
AtAnchor ==
  /\ entry = "build_offers_from_words"
  /\ pc = "anchors"
  /\ at <= Len(anchors)
  /\ Len(clusters) < store_knobs.max_offers_per_page

\* lines 162-173: the anchor has too few words around it
SkipAnchor ==
  /\ AtAnchor
  /\ Len(MembersOf(anchors[at], usable, store_knobs.radius_px)) < store_knobs.min_words_per_offer
  /\ at' = at + 1
  /\ UNCHANGED <<pc, usable, anchors, clusters, merged>>
  /\ UNCHANGED clusterer_frame

\* lines 162-184: the cluster of the anchor
ClusterAnchor ==
  /\ AtAnchor
  /\ \E members \in {MembersOf(anchors[at], usable, store_knobs.radius_px)} :
       /\ Len(members) >= store_knobs.min_words_per_offer
       /\ clusters' = Append(clusters, ClusterOf(anchors[at], members))
  /\ at' = at + 1
  /\ UNCHANGED <<pc, usable, anchors, merged>>
  /\ UNCHANGED clusterer_frame

\* lines 183-188: the clusters sorted, after the last anchor or max_offers clusters
SortClusters ==
  /\ entry = "build_offers_from_words"
  /\ pc = "anchors"
  /\ at > Len(anchors) \/ Len(clusters) >= store_knobs.max_offers_per_page
  /\ clusters' = SortedBy(clusters, ClusterBefore)
  /\ at' = 1
  /\ pc' = "merge"
  /\ UNCHANGED <<usable, anchors, merged>>
  /\ UNCHANGED clusterer_frame

AtCluster ==
  /\ entry = "build_offers_from_words"
  /\ pc = "merge"
  /\ at <= Len(clusters)

\* lines 190-204: the cluster is merged into the first of merged it overlaps
MergeCluster ==
  /\ AtCluster
  /\ \E k \in {FirstOverlap(merged, clusters[at])} :
       /\ k # 0
       /\ merged' = [merged EXCEPT ![k] = MergedInto(merged[k], clusters[at])]
  /\ at' = at + 1
  /\ UNCHANGED <<pc, usable, anchors, clusters>>
  /\ UNCHANGED clusterer_frame

\* lines 190-206: the cluster overlaps none of merged
KeepCluster ==
  /\ AtCluster
  /\ FirstOverlap(merged, clusters[at]) = 0
  /\ merged' = Append(merged, clusters[at])
  /\ at' = at + 1
  /\ UNCHANGED <<pc, usable, anchors, clusters>>
  /\ UNCHANGED clusterer_frame

\* lines 209-212: the words of each offer sorted, and the return
ReturnOffers ==
  /\ entry = "build_offers_from_words"
  /\ pc = "merge"
  /\ at > Len(clusters)
  /\ merged' = [k \in 1..Len(merged) |->
                  [merged[k] EXCEPT !.words = SortedBy(merged[k].words, WordBefore)]]
  /\ pc' = "returned"
  /\ UNCHANGED <<usable, anchors, clusters, at>>
  /\ UNCHANGED clusterer_frame

NextCluster ==
  FilterWords \/ SkipAnchor \/ ClusterAnchor \/ SortClusters \/ MergeCluster \/ KeepCluster
  \/ ReturnOffers

\* the clusterer on every page of PageWordLists
SpecCluster == InitCluster /\ [][NextCluster]_vars

----------------------------------------------------------------------------
(* The batch as a state machine: main of parse_debug_week.py on one            *)
(* _debug_offers folder with one page of offer files, one step for each offer  *)
(* file read, then the write of parsed_week.csv                                *)

InitBatch ==
  /\ entry = "parse_debug_week"
  /\ EngineIdle
  /\ NormalizerIdle
  /\ GuardrailIdle
  /\ SegmenterIdle
  /\ ClustererIdle
  /\ week_files \in BlobLists(MaxFiles)
  /\ snippet_len \in SnippetLens
  /\ total = 0
  /\ week_rows = <<>>
  /\ parsed_week = NoFile

\* what a step of the batch leaves alone
batch_frame ==
  <<raw_text, entry, ext, base, decision, pick, sig, name, conf, deal, result,
    normalizer_vars, guardrail_vars, segmenter_vars, clusterer_vars, week_files, snippet_len>>

\* the loop of line 127 is at an offer file
AtOfferFile == entry = "parse_debug_week" /\ pc = "idle" /\ total < Len(week_files)

\* lines 127-173: an offer file whose blob gives a deal with a price, or no deal
AppendRow ==
  /\ AtOfferFile
  /\ ~RowRaises(parse_offer_blob_with_reason(week_files[total + 1])[1])
  /\ total' = total + 1
  /\ week_rows' = week_rows \o RowsOf(PAGE_DIR, OfferName(total + 1), week_files[total + 1],
                                      parse_offer_blob_with_reason(week_files[total + 1]),
                                      snippet_len)
  /\ pc' = pc
  /\ UNCHANGED <<batch_frame, parsed_week>>

\* lines 127-148: an offer file whose blob gives a deal without a price; the
\* TypeError of line 148 is caught nowhere and ends the run
RaiseTypeError ==
  /\ AtOfferFile
  /\ RowRaises(parse_offer_blob_with_reason(week_files[total + 1])[1])
  /\ total' = total + 1
  /\ pc' = "raised"
  /\ UNCHANGED <<batch_frame, week_rows, parsed_week>>

\* lines 175-179: after the last offer file, parsed_week.csv is written
WriteWeek ==
  /\ entry = "parse_debug_week"
  /\ pc = "idle"
  /\ total = Len(week_files)
  /\ parsed_week' = WeekCsv(week_rows)
  /\ pc' = "written"
  /\ UNCHANGED <<batch_frame, total, week_rows>>

NextBatch == AppendRow \/ RaiseTypeError \/ WriteWeek

\* one run of parse_debug_week on the folder
SpecBatch == InitBatch /\ [][NextBatch]_vars

NextRules == DecideEmpty \/ DecideRule \/ Finalize

NextSelect ==
  \/ EmptyBlob \/ WithReasonSignals
  \/ ParseSignals \/ ParseName \/ ParseScore
  \/ ParseReturn \/ WithReasonReturn
  \/ DecideEmpty \/ DecideRule \/ Finalize

\* the decision engine on the texts of RulesInputs
SpecRules == InitRules /\ [][NextRules]_vars

\* the offer parser, and then the decision engine, on the texts of SelectInputs
SpecSelect == InitSelect /\ [][NextSelect]_vars

----------------------------------------------------------------------------
(* Properties *)

\* parse_offer_blob has returned; parse_offer_blob_with_reason has returned;
\* decide_price_and_promo has returned
Parsed       == pc = "parsed"
Reported     == entry = "parse_offer_blob_with_reason" /\ result # NoResult
RulesDone    == pc = "done"

\* the value of "$X.99"
Dollars99(x) == x * E4 + 99 * (E4 \div 100)

AcceptedDeal ==
  /\ deal.confidence \in MIN_CONFIDENCE..100
  /\ deal.item_name # <<>>
  /\ (deal.sale_price # Null \/ deal.percent_off # Null)

\* C1: a ParsedDeal returned by parse_offer_blob has 60 <= confidence <= 100, an
\* item name and a sale price or a percent; without a price and a percent,
\* without a name, or with a score below 60, parse_offer_blob returns None.
ParsedDealSound ==
  Parsed =>
    /\ deal # NoDeal => AcceptedDeal
    /\ (sig.pick.sale_price = Null /\ sig.pct[1] = Null) => deal = NoDeal
    /\ name = <<>> => deal = NoDeal
    /\ (conf # Null /\ conf < MIN_CONFIDENCE) => deal = NoDeal

\* a deal with a percent and no price is returned
PercentOnlyDeal ==
  Parsed /\ deal # NoDeal /\ deal.sale_price = Null /\ deal.percent_off # Null

Reasons == {"empty_blob", "no_price_or_percent", "no_item_name", "low_confidence"}

\* C2: parse_offer_blob_with_reason returns (deal, "ok") with a deal, or
\* (None, reason) with one of the four reasons, and nothing else.
ReasonVocabulary ==
  Reported =>
    \/ result[1] # NoDeal /\ result[2] = "ok"
    \/ result[1] = NoDeal /\ result[2] \in Reasons

\* a blob with a percent and a name is turned down for its score
LowConfidenceReported == Reported /\ result = <<NoDeal, "low_confidence">>

HasBogo(s) == \E f \in BogoFrags : Contains(s, f)

\* the multi-buy tokens of the inputs: the token, its N and its M
MultiTokens ==
  {[w |-> SlashToken(n), x |-> n, y |-> SlashTotal] : n \in 1..MaxQty}
  \cup {[w |-> ForToken(n), x |-> n, y |-> ForTotal] : n \in 1..MaxQty}
TokensIn(s) == {m \in MultiTokens : Contains(s, m.w)}

\* C3: for a text with "N/$M" or "N for $M" and no BOGO cue, the decision is
\* x_for_y, ok, and sale_price = effective_unit_price = round(M / N, 4).
XForYUnitPrice ==
  (RulesDone /\ TokensIn(raw_text) # {} /\ ~HasBogo(raw_text)) =>
    /\ decision.promo_type = "x_for_y"
    /\ decision.parse_status = "ok"
    /\ decision.sale_price = decision.effective_unit_price
    /\ \E m \in TokensIn(raw_text) : decision.sale_price = RoundDiv(m.y, m.x)

\* "3 for $10": the unit price is rounded to 3.3333
ThreeForTen ==
  /\ RulesDone /\ decision.promo_type = "x_for_y"
  /\ TokensIn(raw_text) = {[w |-> ForToken(3), x |-> 3, y |-> ForTotal]}
  /\ decision.sale_price = 33333

\* the "$X.99" tokens of a text
PricesIn(s) == {x \in 1..MaxDollars : Contains(s, PriceToken(x))}
\* what makes a text more than a price: a promo cue, or a second number
CueFrags == BogoFrags \cup {m.w : m \in MultiTokens} \cup {W_RANGE, W_PCT, W_NOW, W_WAS}
OnePriceNoCue(s) ==
  Cardinality(PricesIn(s)) = 1 /\ \A f \in CueFrags : ~Contains(s, f)

SinglePriceDecision ==
  /\ decision.promo_type = None
  /\ \E x \in PricesIn(raw_text) : decision.sale_price = Dollars99(x)

\* C4, as stated: for a block with exactly one "$X.YY" token and no promo cue,
\* of any length, the decision has promo_type none, sale_price X.YY and a
\* confidence of at least 0.84.
SinglePriceConfident ==
  (RulesDone /\ OnePriceNoCue(raw_text)) =>
    SinglePriceDecision /\ decision.confidence >= 84

\* C4, amended: the confidence is at least 0.84 when the normalized text has 20
\* characters and 4 words or more, and at least 0.79 when it is shorter.
SinglePriceByLength ==
  (RulesDone /\ OnePriceNoCue(raw_text)) =>
    /\ SinglePriceDecision
    /\ decision.confidence >= (IF Len(ext.t) >= 20 /\ WordCount(ext.t) >= 4 THEN 84 ELSE 79)

\* a price with the name of the item: 0.84 + 0.03
PriceWithName ==
  /\ RulesDone /\ OnePriceNoCue(raw_text) /\ Contains(raw_text, W_NAME)
  /\ decision.confidence = 87

\* the blobs of a multi-buy token "N/$5.00" and a name line
MultibuyBlob(n) == Join(<<SlashToken(n), L_SOUP>>, <<"\n">>)

\* C5: for a blob whose only price token is "N/$M", next to a name line, the
\* deal has is_multibuy, multibuy_qty = N, multibuy_total = M and
\* sale_price = M / N (to the cent).
MultibuyUnitPrice ==
  \A n \in 1..MaxQty :
    (Parsed /\ raw_text = MultibuyBlob(n)) =>
      /\ deal # NoDeal
      /\ deal.is_multibuy
      /\ deal.multibuy_qty = n
      /\ deal.multibuy_total = SlashTotal
      /\ deal.sale_price = RoundDiv(SlashTotal, n * 100) * 100

ChickenBlob == Join(<<L_CHICKEN, L_LB_SPACE, L_LIMIT>>, <<"\n">>)

\* the blobs with the price line "$2.99 /lb" or "$2.99/lb"
PerLbBlobs ==
  {Join(<<a, b, c>>, <<"\n">>) : a \in NameLines \cup {<<>>}, b \in {L_LB_SPACE, L_LB},
                                 c \in LastLines}
  \cup {Join(<<a, b, c>>, <<"\n">>) : a \in {L_LB_SPACE, L_LB}, b \in {L_SOUP, <<>>},
                                     c \in LastLines}

\* C6: "Boneless Chicken Breast\n$2.99 /lb\nLimit 2 per customer" is reported ok
\* with a name that starts with "Boneless Chicken Breast", sale_price 2.99,
\* unit lb, limit_qty 2 and confidence >= 60; and a price line with "/lb" or
\* " /lb" gives the unit lb.
PerLbUnit ==
  /\ (Reported /\ raw_text = ChickenBlob) =>
       /\ result[2] = "ok"
       /\ Len(result[1].item_name) >= Len(L_CHICKEN)
       /\ SubSeq(result[1].item_name, 1, Len(L_CHICKEN)) = L_CHICKEN
       /\ result[1].sale_price = Dollars99(2)
       /\ result[1].unit = "lb"
       /\ result[1].limit_qty = 2
       /\ result[1].confidence >= 60
  /\ (Parsed /\ deal # NoDeal /\ raw_text \in PerLbBlobs) => deal.unit = "lb"

\* the fragments with a price for extract_prices
PricedFrags == PriceFrags \cup {m.w : m \in MultiTokens} \cup {W_WAS, W_RANGE}
HasPrice(s) == \E f \in PricedFrags : Contains(s, f)

\* C7: with a BOGO cue the decision is bogo whatever else the text holds; the
\* rule sets sale_price (ok, confidence 0.98) when a price and a pay/now cue both
\* appear, and otherwise gives no sale_price (promo_only, confidence 0.70).
BogoFirst ==
  (pc \in {"rule", "done"} /\ HasBogo(raw_text)) =>
    /\ base.promo_type = "bogo"
    /\ IF HasPrice(raw_text) /\ Contains(raw_text, W_NOW)
       THEN base.sale_price # Null /\ base.parse_status = "ok" /\ base.confidence = 98
       ELSE base.sale_price = Null /\ base.parse_status = "promo_only"
            /\ base.confidence = 70
    /\ RulesDone =>
         /\ decision.promo_type = "bogo"
         /\ decision.sale_price = base.sale_price
         /\ decision.parse_status = base.parse_status

\* a BOGO with "now" and a price: the price is the sale price
BogoWithPayPrice ==
  /\ RulesDone /\ HasBogo(raw_text) /\ Contains(raw_text, W_NOW)
  /\ decision.promo_type = "bogo" /\ decision.sale_price = Dollars99(1)

\* no digit and no percent sign (PCT_RE: %, the fullwidth sign, the degree sign)
NoDigitNoPercent(s) == \A k \in 1..Len(s) : s[k] \notin Digits \cup {"%", FULLPCT, DEGREE}

\* C8, as stated: every block with no digit and no percent cue is reported
\* (None, "no_price_or_percent").
NoDigitNoRecord ==
  (Reported /\ NoDigitNoPercent(raw_text)) => result = <<NoDeal, "no_price_or_percent">>

\* C8, amended: so is every such block of 5 characters or more, the whitespace
\* at its ends not counted.
NoDigitLongEnough ==
  (Reported /\ NoDigitNoPercent(raw_text) /\ Len(Strip(raw_text, Space)) >= 5) =>
    result = <<NoDeal, "no_price_or_percent">>

\* a blob with the word prime, which parse_offer_blob takes for a signal
PrimeOnlyReported ==
  /\ Reported /\ Contains(raw_text, L_PRIME) /\ NoDigitNoPercent(raw_text)
  /\ result = <<NoDeal, "no_price_or_percent">>

AllNull(d) ==
  /\ d.sale_price = Null /\ d.regular_price = Null /\ d.promo_type = None
  /\ d.promo_text = <<>> /\ d.effective_unit_price = Null /\ d.promo_percent = Null

\* C9: parse_offer_blob_with_reason returns (None, "empty_blob") for the empty
\* text and any text of stripped length below 5, before any extraction; and
\* decide_price_and_promo on a text that normalizes to nothing returns failed,
\* confidence 0, no price and no promo.
EmptyIsTyped ==
  /\ (Reported /\ Len(Strip(raw_text, Space)) < 5) =>
       /\ result = <<NoDeal, "empty_blob">>
       /\ pick = NoPick /\ sig = NoSig /\ name = <<>> /\ conf = Null /\ deal = NoDeal
  /\ (RulesDone /\ \A k \in 1..Len(raw_text) : raw_text[k] \in Space) =>
       /\ decision.parse_status = "failed"
       /\ decision.confidence = 0
       /\ AllNull(decision)

\* a text of whitespace has gone through both
BlankThroughBoth ==
  /\ Reported /\ RulesDone /\ raw_text = W_BLANK
  /\ result[2] = "empty_blob" /\ decision.confidence_reason = "empty_text"

\* C10: the confidence of the PriceDecision returned lies in [0, 1].
ConfInRange == RulesDone => decision.confidence \in 0..100

\* the bonuses take the confidence over 1 and the clamp brings it back
ClampedAtOne ==
  /\ RulesDone
  /\ Nudged(base, ext.t, ext.prices, ext.pct, ext.unit) > 100
  /\ decision.confidence = 100

\* C11: normalize_ocr_text is idempotent, normalizing its own result changes
\* nothing, and the empty text is normalized to the empty text
NormalizeIdempotent ==
  /\ (pc = "twice" => twice = once)
  /\ (pc \in {"once", "twice"} /\ raw_text = <<>> => once = <<>>)

\* a text with the "s 1.99" artifact, upper case and a line break has been
\* normalized twice and the first call rewrote it
NormalizedTwice ==
  /\ pc = "twice"
  /\ raw_text = N_USD_UP \o N_NEWLINE \o N_S \o N_PRICE
  /\ once = <<"$"," ","s">> \o N_PRICE

\* the rows of manual_ocr_needed.csv after its header, as csv.DictReader reads them
ManualRows == IF manual_file = NoFile THEN <<>> ELSE Tail(reader(manual_file))
\* the first call made with the key of the c-th call
FirstCall(c) == Min({b \in 1..c : calls[b][1] = calls[c][1]})

\* the rows have one row for the key of each call made, with the reason of the
\* first call made with that key, and nothing else
RowsOfCalls(rows) ==
  /\ \A j, k \in 1..Len(rows) :
        j # k => KeyOf(ManualFields, rows[j]) # KeyOf(ManualFields, rows[k])
  /\ Len(rows) = Cardinality({calls[c][1] : c \in 1..Len(calls)})
  /\ \A c \in 1..Len(calls) :
        \E k \in 1..Len(rows) :
           /\ KeyOf(ManualFields, rows[k]) = calls[c][1]
           /\ RowGet(ManualFields, rows[k], F_REASON) = calls[FirstCall(c)][2]

\* C12: after any sequence of calls of mark_manual_needed the file has at most
\* one row per (store_id, week_code, source_file); a call for a key that has a row
\* appends nothing, and the row keeps the reason of the first call for its key
OneRowPerKey == \A rows \in {ManualRows} : RowsOfCalls(rows)

\* a key the csv module has to quote was marked, another key was marked, and the
\* first was marked again with another reason
MarkedAgain ==
  /\ Len(calls) = 3
  /\ calls[1] = <<<<(<<"a",",","b">>), (<<QUOTE,"w">>), (<<"f","\n","g">>)>>, R_MAX_FAILS>>
  /\ calls[2][1] # calls[1][1]
  /\ calls[3] = <<calls[1][1], R_EMPTY>>
  /\ Len(ManualRows) = 2

\* the conditions of the eight rules of decide_price_and_promo, in the order of
\* the source, on what DecideRule extracted
RuleConditions ==
  <<Found(_BOGO_WORDS, ext.t),
    ext.xfy # <<>>,
    ext.rng # <<>>,
    ext.pct # Null /\ ext.prices = <<>>,
    ext.prices # <<>> /\ Found(_EXPLICIT_PAY_WORDS, ext.t),
    Len(ext.prices) >= 2,
    Len(ext.prices) = 1,
    TRUE>>
\* the confidence_reason tags and the base confidences of each rule
RuleTags ==
  <<{"explicit_pay_price_with_bogo", "promo_only_bogo"},
    {"x_for_y_unit_price_as_sale"},
    {"promo_only_range"},
    {"promo_only_percent"},
    {"explicit_pay_price_with_regular", "explicit_pay_price"},
    {"labeled_sale_vs_regular", "two_prices_guess_low_is_sale"},
    {"single_price_with_unit", "single_price"},
    {"no_price_no_promo"}>>
RuleBases == <<{98, 70}, {82}, {55}, {40}, {98}, {92, 75}, {84}, {15}>>
\* the rule that decided, by the tag of the decision
RuleOf(d) == CHOOSE k \in 1..8 : d.confidence_reason \in RuleTags[k]
\* the first rule in the order whose condition holds, given all eight conditions
FirstOf(conds) == Min({k \in 1..8 : conds[k]})
\* the engine has taken a text through the rule cascade
RuleDecided == pc \in {"rule", "done"} /\ base # NoDecision

\* C13: the decision is that of the first rule, in the order BOGO, multi-buy,
\* range, percent-only, explicit pay cue, two or more prices, single price,
\* nothing usable, whose condition holds, with that rule's base confidence, also
\* when a later rule with a higher base confidence matches as well
FirstRuleDecides ==
  RuleDecided =>
    /\ RuleOf(base) = FirstOf(RuleConditions)
    /\ base.confidence \in RuleBases[RuleOf(base)]
    /\ (pc = "done" => /\ decision.confidence_reason = base.confidence_reason
                       /\ decision.promo_type = base.promo_type)

\* a multi-buy token with a "now" price: the multi-buy rule and the explicit pay
\* rule both match, the decision is x_for_y at base 0.82
MultiBuyBeforePay ==
  /\ pc = "done"
  /\ raw_text = RulesText(SlashToken(2), W_NOW, PriceToken(1))
  /\ RuleConditions[2] /\ RuleConditions[5]
  /\ decision.promo_type = "x_for_y"
  /\ base.confidence = 82

\* the explicit pay rule decided
PayRuleDecided == RuleDecided /\ RuleOf(base) = 5
\* the detected prices and, where there is one, the detected regular price
PricesAndRegular(reg) == Range(ext.prices) \cup (IF reg # Null THEN {reg} ELSE {})

\* C14 as stated: when the explicit pay rule fires, sale_price is the minimum
\* over the detected prices and the detected regular price, whether or not a
\* regular price was found
PayPriceIsMinimum ==
  PayRuleDecided =>
    base.sale_price = Min(PricesAndRegular(extract_regular_price(ext.t)))

\* C14, amended: when the explicit pay rule fires and a reg/was/list price was
\* found, sale_price is the minimum over the detected prices and that regular
\* price; when none was found, sale_price is the first detected price; the
\* calibration leaves both prices as the rule set them
PayPriceMinWithRegular ==
  PayRuleDecided =>
    /\ base.regular_price = extract_regular_price(ext.t)
    /\ base.sale_price = IF base.regular_price # Null
                         THEN Min(PricesAndRegular(base.regular_price))
                         ELSE ext.prices[1]
    /\ (pc = "done" => /\ decision.sale_price = base.sale_price
                       /\ decision.regular_price = base.regular_price)

\* "now", "was 4.49" and "$1.99": the regular price is the first price detected,
\* the sale price is the lower one after it
PayBelowRegular ==
  /\ pc = "done"
  /\ raw_text = RulesText(W_NOW, W_WAS, PriceToken(1))
  /\ PayRuleDecided
  /\ ext.prices[1] = decision.regular_price
  /\ decision.sale_price = Dollars99(1)
  /\ decision.sale_price < ext.prices[1]

\* the calibration as the claim states it, on the rule's decision base and what
\* was extracted, with the unit bonus given or not
CalShortText == Len(ext.t) < 20 \/ WordCount(ext.t) < 4
CalManyPrices == Len(ext.prices) >= 4 /\ base.confidence_reason # "labeled_sale_vs_regular"
CalNudged(unit_bonus) ==
  base.confidence - (IF CalShortText THEN 8 ELSE 0)
                  + (IF base.sale_price # Null THEN 3 ELSE 0)
                  + (IF base.sale_price # Null /\ ext.pct # Null THEN 4 ELSE 0)
                  + (IF unit_bonus THEN 2 ELSE 0)
                  - (IF CalManyPrices THEN 6 ELSE 0)
CalCapped(c) == IF base.parse_status = "promo_only" THEN Min({c, 85}) ELSE c
CalClamped(c) == Max({0, Min({100, c})})
\* the calibration has run
Calibrated == pc = "done" /\ base # NoDecision
\* decision differs from base in confidence and in the calibration tags only
OnlyConfidenceChanged == [decision EXCEPT !.confidence = base.confidence, !.cal = <<>>] = base

\* C15 as stated: + 0.02 whenever a unit is present
CalibrationAnyUnit ==
  Calibrated =>
    /\ decision.confidence = CalClamped(CalCapped(CalNudged(ext.unit # <<>>)))
    /\ OnlyConfidenceChanged

\* C15, amended: the final confidence is clamp[0,1] of the base - 0.08 for a short
\* text, + 0.03 with a sale price, + 0.04 with a sale price and a percent, + 0.02
\* if a unit is present and the status is ok, - 0.06 with four or more prices
\* outside the labeled rule, capped at 0.85 for a promo-only decision; no other
\* field changes
CalibrationOkUnit ==
  Calibrated =>
    /\ decision.confidence =
         CalClamped(CalCapped(CalNudged(ext.unit # <<>> /\ base.parse_status = "ok")))
    /\ OnlyConfidenceChanged

\* "BOGO" and "$1.99 /lb": a promo-only decision with a unit, 0.70 - 0.08 and
\* no unit bonus
PromoOnlyWithUnit ==
  /\ Calibrated
  /\ raw_text = RulesText(W_BOGO, PriceToken(1), W_LB)
  /\ ext.unit # <<>>
  /\ decision.parse_status = "promo_only"
  /\ decision.confidence = 62

\* the four parts of the confidence of parse_offer_blob, on the signals and the
\* name it found
SignalPoints == IF sig.pick # NoPick \/ sig.pct[1] # Null THEN 35 ELSE 0
NamePoints   == IF WordCount(name) >= 2 THEN 35 ELSE 20
UnitPoints   == IF sig.pick # NoPick /\ sig.pick.unit \in {"lb", "ea"} THEN 10 ELSE 0
MultiPoints  ==
  IF sig.pick.is_multibuy /\ sig.pick.multibuy_qty > 0 /\ sig.pick.multibuy_total > 0
  THEN 10 ELSE 0

\* C16: the confidence of a scored deal is min(100, 35 for a price or percent
\* signal + 35 for a name of two or more words or 20 for a name of one word + 10
\* for a resolved unit + 10 for a multi-buy pick with quantity and total), and
\* the deal is returned iff it is at least 60
ConfidenceSum ==
  conf # Null =>
    /\ conf = Min({100, SignalPoints + NamePoints + UnitPoints + MultiPoints})
    /\ (deal # NoDeal <=> conf >= 60)
    /\ (deal # NoDeal => deal.confidence = conf)

\* "2/5" over "Canned Soup": a multi-buy pick with quantity and total, a unit and
\* a name of two words, 35 + 35 + 10 + 10
BareMultibuyDeal ==
  /\ raw_text = Join(<<L_BARE, L_SOUP>>, <<"\n">>)
  /\ conf = 90
  /\ MultiPoints = 10
  /\ deal.is_multibuy /\ deal.multibuy_qty = 2 /\ deal.confidence = 90

----------------------------------------------------------------------------
(* Properties of the segmenter *)

HeadOf(c) == chunk_blocks[c][1]
AbsorbedOf(c) == Tail(chunk_blocks[c])
BlocksIn(c) == {chunk_blocks[c][n] : n \in 1..Len(chunk_blocks[c])}

\* merged_lines for the blocks bs of a chunk: a blank line between two blocks
RECURSIVE MergedLines(_)
MergedLines(bs) ==
  IF Len(bs) = 1 THEN blocks[bs[1]]
  ELSE MergedLines(SubSeq(bs, 1, Len(bs) - 1)) \o <<<<>>>> \o blocks[bs[Len(bs)]]

\* the head of chunk c is a kept block without a price token and with a
\* percent/prime cue
RescueHead(b) ==
  /\ should_keep_block(blocks[b], args.min_block_len)
  /\ ~has_price_token(block_text(blocks[b]))
  /\ has_pct_or_prime(block_text(blocks[b]))

\* the n-th block absorbed into chunk c follows the head within the lookahead,
\* was in no chunk before, and has a digit or a price token
AbsorbedRightly(c, n) ==
  /\ AbsorbedOf(c)[n] \in (HeadOf(c) + 1)..(HeadOf(c) + args.merge_lookahead)
  /\ \A d \in 1..(c - 1) : AbsorbedOf(c)[n] \notin BlocksIn(d)
  /\ \A k \in 1..n : chunk_blocks[c][k] # AbsorbedOf(c)[n]
  /\ \/ has_any_digits(block_text(blocks[AbsorbedOf(c)[n]]))
     \/ has_price_token(block_text(blocks[AbsorbedOf(c)[n]]))

\* the head of chunk c with the first n blocks absorbed into it has no price
\* token yet
NoPriceYet(c, n) == ~has_price_token(MergedText(MergedLines(SubSeq(chunk_blocks[c], 1, n + 1))))

RescueOf(c) ==
  AbsorbedOf(c) # <<>> =>
    /\ RescueHead(HeadOf(c))
    /\ Len(AbsorbedOf(c)) <= args.merge_lookahead
    /\ \A n \in 1..Len(AbsorbedOf(c)) : AbsorbedRightly(c, n)
    /\ \A n \in 1..Len(AbsorbedOf(c)) : NoPriceYet(c, n - 1)

\* C17: in the normal mode, a chunk has absorbed blocks only if its head block
\* is a kept block without a price token and with a percent/prime cue; the
\* absorbed blocks are at most merge_lookahead, each among the merge_lookahead
\* blocks after the head, not used before, with a digit or a price token, and
\* each was absorbed while the merged text had no price token yet.
RescueWithinLookahead == \A c \in 1..Len(chunk_blocks) : RescueOf(c)

\* "20% off ..." absorbs the price after it and stops before the second price
RescueStoppedEarly ==
  /\ pc = "written"
  /\ raw_text = Join(<<B_PCT, B_PRICE, B_PRICE>>, BLANK_LINE)
  /\ args.merge_lookahead = 2
  /\ chunk_blocks = <<<<1, 2>>>>
  /\ offer_files = <<B_PCT \o BLANK_LINE \o B_PRICE \o <<"\n">>>>

\* no block is in two chunks or twice in one
NoBlockTwice ==
  \A c, d \in 1..Len(chunk_blocks) :
    \A n \in 1..Len(chunk_blocks[c]) : \A k \in 1..Len(chunk_blocks[d]) :
      chunk_blocks[c][n] = chunk_blocks[d][k] => (c = d /\ n = k)

\* each chunk is the lines of its blocks, whole
ChunksWhole ==
  /\ Len(chunks_normal) = Len(chunk_blocks)
  /\ \A c \in 1..Len(chunk_blocks) : chunks_normal[c] = ChunkOf(MergedLines(chunk_blocks[c]))

\* once the loop is over, each block that passes the keep rule is in a chunk
KeptBlocksEmitted ==
  pc = "written" =>
    \A b \in 1..Len(blocks) :
      should_keep_block(blocks[b], args.min_block_len) =>
        \E c \in 1..Len(chunk_blocks) : b \in BlocksIn(c)

\* C18: each block of the page is whole in at most one chunk (an absorbed
\* block is not emitted as a chunk of its own nor absorbed again, a head block
\* is not absorbed later), and each block that passes the keep rule is in
\* exactly one chunk when the page is done.
BlockInOneChunk == NoBlockTwice /\ ChunksWhole /\ KeptBlocksEmitted

\* "20% off ...", itself a block the keep rule passes, is absorbed by the
\* "prime ..." block before it and skipped when the loop comes to it
AbsorbedNotReemitted ==
  /\ pc = "written"
  /\ raw_text = Join(<<B_PRIME, B_PCT, B_TEXT>>, BLANK_LINE)
  /\ args.merge_lookahead = 1
  /\ used = {1, 2, 3}
  /\ chunk_blocks = <<<<1, 2>>, <<3>>>>

\* C19: the blocks of each chunk are consecutive blocks of the page.
ChunksContiguous ==
  \A c \in 1..Len(chunk_blocks) :
    \A n \in 1..(Len(chunk_blocks[c]) - 1) : chunk_blocks[c][n + 1] = chunk_blocks[c][n] + 1

\* the text of a line after its "Valid MM/DD-MM/DD" part
AfterValid(line) == Sub(VALID_RE, <<>>, line)
\* a price token in the block that is not in the dates of a "Valid" line
PriceBesidesDates(block) ==
  has_price_token(block_text([n \in 1..Len(block) |-> AfterValid(block[n])]))

\* the keep rule as stated
StatedKeep(block, min_len) ==
  IF NonValid(block) = <<>> THEN PriceBesidesDates(block)
  ELSE Len(block_text(block)) >= min_len

\* the blocks the loop has come to as head candidates: the ones before i that
\* no merge absorbed
Considered == {b \in 1..Len(blocks) : b < i /\ \A c \in 1..Len(chunk_blocks) : b \notin Range(AbsorbedOf(c))}
Heads == {HeadOf(c) : c \in 1..Len(chunk_blocks)}

\* C20: a block of "Valid MM/DD-MM/DD" lines only is dropped unless it has a
\* price of its own, and a block with a line that is not a "Valid" line is
\* kept iff its joined length is at least min_len.
KeepRuleAsStated ==
  \A b \in Considered : b \in Heads <=> StatedKeep(blocks[b], args.min_block_len)

----------------------------------------------------------------------------
(* Properties of the decisions returned *)

\* decide_price_and_promo has returned
Returned == entry = "decide_price_and_promo" /\ pc = "done"

\* C28: in a decision returned by decide_price_and_promo, sale_price is there
\* iff parse_status is ok; promo_only comes with bogo, range or percent_off and
\* no sale_price; failed comes with no sale_price, regular_price, promo_type or
\* promo_percent; effective_unit_price is there only for x_for_y, and is then
\* the sale_price.
StatusAndFields ==
  Returned =>
    /\ decision.parse_status \in {"ok", "promo_only", "failed"}
    /\ decision.sale_price # Null <=> decision.parse_status = "ok"
    /\ decision.parse_status = "promo_only" =>
         /\ decision.promo_type \in {"bogo", "range", "percent_off"}
         /\ decision.sale_price = Null
    /\ decision.parse_status = "failed" =>
         /\ decision.sale_price = Null
         /\ decision.regular_price = Null
         /\ decision.promo_type = None
         /\ decision.promo_percent = Null
    /\ decision.effective_unit_price # Null =>
         /\ decision.promo_type = "x_for_y"
         /\ decision.effective_unit_price = decision.sale_price

\* "3 for $10" and "10% off": the unit price 3.3333 is the sale price
ThreeForTenDecided ==
  /\ Returned
  /\ raw_text = RulesText(ForToken(3), <<>>, W_PCT)
  /\ decision.parse_status = "ok"
  /\ decision.promo_type = "x_for_y"
  /\ decision.promo_percent = 10
  /\ decision.effective_unit_price = 33333
  /\ decision.sale_price = 33333

\* C29: in a decision returned by decide_price_and_promo with a sale_price and
\* a regular_price, the sale_price is at most the regular_price.
SaleAtMostRegular ==
  Returned =>
    (decision.sale_price # Null /\ decision.regular_price # Null =>
       decision.sale_price <= decision.regular_price)

\* "sale $1.99 $2.99 was 4.49 $3.99": the labeled rule, the lowest of four
\* prices against the highest
LabeledLowestOfFour ==
  /\ Returned
  /\ raw_text = W_SALE \o <<" ">> \o FourPrices
  /\ base.confidence_reason = "labeled_sale_vs_regular"
  /\ decision.sale_price = Dollars99(1)
  /\ decision.regular_price = 44900

----------------------------------------------------------------------------
(* Properties of the price pick *)

\* pick_best_sale_price has returned a pick
Picked == entry = "pick_best_sale_price" /\ pc = "done" /\ pick # NoPick

\* a dollar or multi-buy candidate of 0.10 to 100 on a line without junk context
CleanCand(c) ==
  /\ c.kind \in {"dollar", "multibuy"}
  /\ ~c.is_junk_context
  /\ 10 * c.num >= E4 * c.den
  /\ c.num <= 100 * E4 * c.den

\* a clean candidate of cands scores more than any of a junk context, and the
\* best is of a junk context only when there is no clean one
CleanFirst(cands, perlb) ==
  /\ \A a, b \in 1..Len(cands) :
       CleanCand(cands[a]) /\ cands[b].is_junk_context =>
         Score(cands[a], perlb) > Score(cands[b], perlb)
  /\ cands[BestIndex(cands, perlb)].is_junk_context =>
       \A a \in 1..Len(cands) : ~CleanCand(cands[a])

\* C30: in pick_best_sale_price, a dollar or multi-buy candidate of 0.10 to
\* 100 on a line without junk context scores more than every candidate on a
\* line with junk context, so the price picked is of a junk line only when
\* there is no such candidate.
CleanOutscoresJunk ==
  Picked =>
    \E lines \in {StrippedLines(raw_text)} :
      /\ pick = PickLines(lines)
      /\ CleanFirst(_extract_candidates(lines), BlobHasPerLb(lines))

\* the bare multi-buy "2/5" on the first line, 2.50 with 29 points, against
\* "save $3.00/lb each" on line 20, 3.00 with 28 points
BareMultibuyOverJunk ==
  /\ Picked
  /\ raw_text = L_BARE \o [k \in 1..20 |-> "\n"] \o J_SAVE_LB
  /\ pick.is_multibuy
  /\ pick.sale_price = 25000
  /\ pick.unit = "lb"

----------------------------------------------------------------------------
(* Properties of the item name *)

\* extract_item_name has returned
Named == entry = "extract_item_name" /\ pc = "done"

\* line li (from 0) is at most 4 lines from the price line, if there is one
NearPrice(li, center) == center = Null \/ Abs(li - center) <= 4

\* what a candidate gets for the lines between it and the price line
LineBonus(li, center) == IF center # Null THEN Max({0, 14 - Abs(li - center) * 4}) ELSE 0
PairBonus(li, center) == (IF center # Null THEN Max({0, 16 - Abs(li - center) * 3}) ELSE 0) + 6

\* the candidates <<score, text>> of the lines near the price line
SingleCands(cleaned, center) ==
  {<<score_cleaned(cleaned[li + 1]) + LineBonus(li, center), cleaned[li + 1]>> :
     li \in {k \in 0..(Len(cleaned) - 1) : NearPrice(k, center) /\ cleaned[k + 1] # <<>>}}

PairOf(cleaned, li) == _clean_name_line(cleaned[li + 1] \o <<" ">> \o cleaned[li + 2])

\* the pairs of lines li and li + 1, the second line of a pair no further than
\* reach from the price line
PairCands(cleaned, center, reach) ==
  {<<score_cleaned(PairOf(cleaned, li)) + PairBonus(li, center), PairOf(cleaned, li)>> :
     li \in {k \in 0..(Len(cleaned) - 2) :
              /\ NearPrice(k, center)
              /\ center # Null => Abs(k + 1 - center) <= reach
              /\ cleaned[k + 1] # <<>> /\ cleaned[k + 2] # <<>>}}

\* the name is that of a candidate of cs with the highest score, not negative,
\* of two words at least and six letters at least, cut to 90 characters; there
\* is no name when there is no such candidate
BestOf(cs) == {c \in cs : c[1] >= 0 /\ \A d \in cs : d[1] <= c[1]}
NameAmong(cs) ==
  /\ Len(name) <= MAX_NAME_LEN
  /\ IF BestOf(cs) = {} THEN name = <<>>
     ELSE \E c \in BestOf(cs) :
            /\ name = Prefix(_clean_name_line(c[2]), MAX_NAME_LEN)
            /\ AlphaCount(c[2]) >= 6
            /\ WordCount(c[2]) >= 2

NameWithin(reach) ==
  Named =>
    \E cleaned \in {CleanedLines(StrippedLines(raw_text))} :
      \E center \in {BestLine(_extract_candidates(StrippedLines(raw_text)), pick)} :
        NameAmong(SingleCands(cleaned, center) \cup PairCands(cleaned, center, reach))

\* C25 as stated: the name is the best candidate, of score 0 at least, among
\* the cleaned lines and pairs of adjacent lines that are at most 4 lines from
\* the price line, cut to 90 characters; never a candidate of less than 6
\* letters or of one word; none when all candidates score below 0.
NameWithinFourLines == NameWithin(4)

\* C25, amended: the same, with the pairs of adjacent lines whose first line is
\* at most 4 lines from the price line; the second line of a pair may be the
\* fifth line below the price line.
NameFirstLineWithinFour == NameWithin(5)

\* "Canned" four lines below the price and "Soup" five lines below it: the pair
\* is the name
NameFromFifthLine ==
  /\ Named
  /\ raw_text = PriceToken(1) \o [k \in 1..4 |-> "\n"] \o W_CANNED \o <<"\n">> \o W_SOUP
  /\ name = L_SOUP

----------------------------------------------------------------------------
(* Properties of the clusterer *)

\* build_offers_from_words has returned merged
OffersReturned == entry = "build_offers_from_words" /\ pc = "returned"

\* C21: no two of the clusters returned by build_offers_from_words have boxes
\* with an IoU of 0.35 or more.
NoOverlapLeft ==
  OffersReturned =>
    \A j, k \in 1..Len(merged) : j # k => ~Overlapping(merged[j].bbox, merged[k].bbox)

\* no two words of ws have the same box and text
KeysOnce(ws) == \A j, k \in 1..Len(ws) : WordKey(ws[j]) = WordKey(ws[k]) => j = k

\* the words of a cluster: each once, each of the confidence asked for, with a
\* text, not one to ignore, and as many as asked for
ClusterWords(ws) ==
  /\ KeysOnce(ws)
  /\ \A k \in 1..Len(ws) :
       /\ ws[k].conf >= store_knobs.min_word_conf
       /\ Strip(ws[k].text, Space) # <<>>
       /\ ~Found(store_knobs.ignore_regex, Strip(ws[k].text, Space))
  /\ Len(ws) >= store_knobs.min_words_per_offer

\* C22: the words given being distinct by box and text, a cluster returned by
\* build_offers_from_words has each word once at most, also after a merge of
\* clusters that share words; each of its words has conf >= min_word_conf, a
\* text, and is not one to ignore; it has min_words_per_offer words or more.
WordsOncePerCluster ==
  KeysOnce(words) =>
    \A k \in 1..Len(merged) : ClusterWords(merged[k].words)

\* the clusters of "$1.99" and of "2/$5", three words each with two in common,
\* merged into one of four words
SharedWordsMerged ==
  /\ OffersReturned
  /\ store_knobs = ShawsKnobs
  /\ Len(clusters) = 2
  /\ Len(clusters[1].words) = 3
  /\ Len(clusters[2].words) = 3
  /\ Len(merged) = 1
  /\ Len(merged[1].words) = 4

----------------------------------------------------------------------------
(* Properties of the fallback windows *)

\* _fallback_price_windows has returned, and there were hits
WindowsReturned ==
  entry = "_fallback_price_windows" /\ pc = "returned" /\ fallback.hits # <<>>

\* the window v lies in the window w
Inside(v, w) == w[1] <= v[1] /\ v[2] <= w[2]

\* one window for each hit, from before characters before it to after
\* characters after it, cut at the ends of t
WindowPerHit ==
  /\ Len(fallback.windows) = Len(fallback.hits)
  /\ \A k \in 1..Len(fallback.hits) :
       /\ fallback.windows[k][1] =
            (IF fallback.hits[k][1] - args.fallback_before < 0 THEN 0
             ELSE fallback.hits[k][1] - args.fallback_before)
       /\ fallback.windows[k][2] =
            (IF fallback.hits[k][2] + args.fallback_after > Len(fallback.t)
             THEN Len(fallback.t) ELSE fallback.hits[k][2] + args.fallback_after)

\* each merged window begins where a window begins and ends where one ends, and
\* each window in it but the first begins 30 characters at most after the end of
\* a window before it
MergedFromNear ==
  \A j \in 1..Len(fallback.merged) :
    /\ \E k \in 1..Len(fallback.windows) : fallback.windows[k][1] = fallback.merged[j][1]
    /\ \E k \in 1..Len(fallback.windows) : fallback.windows[k][2] = fallback.merged[j][2]
    /\ \A k \in 1..Len(fallback.windows) :
         Inside(fallback.windows[k], fallback.merged[j]) =>
           \/ fallback.windows[k][1] = fallback.merged[j][1]
           \/ \E h \in 1..(k - 1) :
                /\ Inside(fallback.windows[h], fallback.merged[j])
                /\ fallback.windows[k][1] <= fallback.windows[h][2] + 30

\* the merged windows are not empty, in increasing order, and more than 30
\* characters lie between one and the next
MergedApart ==
  /\ \A j \in 1..Len(fallback.merged) : fallback.merged[j][1] < fallback.merged[j][2]
  /\ \A j \in 1..(Len(fallback.merged) - 1) :
       fallback.merged[j + 1][1] - fallback.merged[j][2] > 30

\* each hit lies in one merged window and no more
HitInOneWindow ==
  \A k \in 1..Len(fallback.hits) :
    Cardinality({j \in 1..Len(fallback.merged) :
                   Inside(fallback.hits[k], fallback.merged[j])}) = 1

\* each chunk is the stripped text of a merged window, has 18 characters or
\* more and a price token
ChunkOfWindow ==
  \A c \in 1..Len(fallback.chunks) :
    /\ \E j \in 1..Len(fallback.merged) :
         fallback.chunks[c] =
           Strip(Slice(fallback.t, fallback.merged[j][1] + 1, fallback.merged[j][2] + 1), Space)
    /\ Len(fallback.chunks[c]) >= 18
    /\ Found(PRICE_TOKEN_RE, fallback.chunks[c])

\* C23: _fallback_price_windows builds one window [max(0, start - before),
\* min(len, end + after)] for each hit and merges the windows that begin 30
\* characters at most after the end of the merged window before; the merged
\* windows are disjoint, in increasing order and more than 30 characters apart,
\* every hit lies in one merged window and no more, and every chunk returned is
\* the stripped text of a merged window, of 18 characters or more, with a price
\* token in it.
FallbackWindowsSound ==
  WindowsReturned =>
    WindowPerHit /\ MergedFromNear /\ MergedApart /\ HitInOneWindow /\ ChunkOfWindow

\* two prices 30 characters apart, no characters taken before and after: one
\* merged window of 40 characters, one chunk
ThirtyApartMerged ==
  /\ WindowsReturned
  /\ raw_text = H_DOLLAR \o G_30 \o H_DOLLAR
  /\ args.fallback_before = 0
  /\ args.fallback_after = 0
  /\ fallback.windows = <<<<0, 5>>, <<35, 40>>>>
  /\ fallback.merged = <<<<0, 40>>>>
  /\ Len(fallback.chunks) = 1

----------------------------------------------------------------------------
(* Properties of the two modes of main *)

\* offer_0001.txt, offer_0002.txt, ... of the chunks and no other file
FilesOf(chunks) == [k \in 1..Len(chunks) |-> Strip(chunks[k], Space) \o <<"\n">>]

\* the brand is Aldi-like and the normal mode kept fewer than
\* fallback_min_offers chunks
FallbackDue ==
  brand = <<"a","l","d","i">> /\ Len(chunks_normal) < args.fallback_min_offers

\* what the fallback yields on the page
FallbackYield ==
  _fallback_price_windows(raw_text, args.fallback_before, args.fallback_after)

\* the step of main that ends the page
PageCounted == pc # "counted" /\ pc' = "counted"

\* the page ends with the files and the count of one mode
OneModeCounted ==
  IF FallbackDue /\ FallbackYield # <<>>
  THEN offer_files' = FilesOf(FallbackYield) /\ offers' = offers + Len(FallbackYield)
  ELSE offer_files' = FilesOf(chunks_normal) /\ offers' = offers + Len(chunks_normal)

FallbackEmptyNormalStands ==
  /\ entry = "chunk_ocr_to_debug_offers"
  /\ pc = "counted"
  /\ FallbackDue
  /\ fallback.hits # <<>>
  /\ fallback.chunks = <<>>
  /\ chunks_normal # <<>>
  /\ offer_files = FilesOf(chunks_normal)

----------------------------------------------------------------------------
(* Properties of the guardrail of ocr_image *)

\* the calls before call k in which OCR of the image failed, by empty text or
\* by an exception
FailedBefore(k) == Cardinality({j \in 1..(k - 1) : ocr_calls[j] = "failed"})

\* C26: under any sequence of run_for_week and ocr_image runs, ocr_image gives
\* the image up (marks it once and returns no text) if and only if OCR of the
\* image has failed 3 times or more already; an image that failed fewer times
\* is tried, and an image given up is never tried again.
GivenUpAfterThreeFailures ==
  entry = "date_ocr_runner" =>
    /\ \A k \in 1..Len(ocr_calls) : (ocr_calls[k] = "given_up") <=> (FailedBefore(k) >= 3)
    /\ \A j, k \in 1..Len(ocr_calls) :
         (j < k /\ ocr_calls[j] = "given_up") => ocr_calls[k] = "given_up"

----------------------------------------------------------------------------
(* parse_debug_week.py: the batch *)

BatchRun == entry = "parse_debug_week"
BatchWritten == BatchRun /\ pc = "written"
BatchRaised == BatchRun /\ pc = "raised"

\* the rows of parsed_week.csv under its header
WrittenRows == Tail(reader(parsed_week))

\* C27: no result of parse_offer_blob_with_reason ends the run, and the file
\* written has one row for each offer file of the folder, in their order.
OneRowPerOfferFile ==
  /\ ~BatchRaised
  /\ BatchWritten =>
       /\ Len(WrittenRows) = Len(week_files)
       /\ \A k \in 1..Len(week_files) :
            RowGet(WeekFields, WrittenRows[k], WeekFields[2]) = OfferName(k)

\* a run over two offer files that wrote its file: a deal with a price and a
\* blob turned down
PricedAndRejectedWritten ==
  /\ BatchWritten
  /\ week_files = <<K_PRICED, K_NO_NAME>>
  /\ Len(WrittenRows) = 2

\* a run ended by the percent-only deal of its second offer file, nothing written
PercentOnlyEndsRun ==
  /\ BatchRaised
  /\ week_files = <<K_PRICED, K_PERCENT>>
  /\ parsed_week = NoFile

============================================================================
